---- MODULE Spec2Model ----
(***************************************************************************)
(* A model of disp-s1's configuration translator (pge_runconfig.py):       *)
(*   - the reference-date resolver, _compute_reference_dates, with its     *)
(*     helper _get_first_after_selected;                                   *)
(*   - the parameter override merge, _nested_update;                       *)
(*   - the translation RunConfig.to_workflow that uses both;               *)
(* and of the product assembler (product.py): the recommended mask, the    *)
(* assembly pipeline create_output_product and the compressed-acquisition  *)
(* producer create_compressed_products.                                    *)
(* Python lists are sequences whose Python index i is position i + 1.      *)
(* Calendar dates are integers (days); a datetime is counted in half days, *)
(* so that datetime.date() is a real truncation.                           *)
(***************************************************************************)
EXTENDS Integers, Sequences, FiniteSets, TLC

VARIABLES
    pc,                   \* which component runs, and where it stands
    input_dates,          \* _compute_reference_dates: dates of the template burst's files
    is_compressed,        \* _compute_reference_dates: compressed flag of each file
    reference_datetimes,  \* the frame's requested changeovers (datetimes)
    reference_dates,      \* sorted({d.date() for d in reference_datetimes})
    ref_pos,              \* how many of reference_dates the for loop has consumed
    output_reference_idx, \* local of _compute_reference_dates
    extra_reference_date, \* local of _compute_reference_dates: None or {date}
    subscripts,           \* the Python subscripts applied to is_compressed so far
    algorithm_parameters, \* _override_parameters: the record it is given (as a dict)
    param_dict,           \* _override_parameters: the dumped dict, updated in place
    override_params,      \* _override_parameters: the frame's overrides
    merge_error,          \* the exception _nested_update raised, or "none"
    cslc_file_list,       \* to_workflow: the input files, each [burst, date, compressed]
    frame_burst_ids,      \* to_workflow: the registry's burst ids of frame_id
    translate_error,      \* to_workflow: the exception it raised, or "none"
    workflow,             \* to_workflow: the DisplacementWorkflow returned, or None
    temporal_coherence,   \* create_output_product: the temporal coherence raster
    conncomps,            \* create_output_product: the connected component raster
    similarity,           \* create_output_product: the phase similarity raster
    water_mask_data,      \* create_output_product: the water mask raster, or None
    disp_shape,           \* create_output_product: the shape of the displacement
    bad_pixel_mask,       \* create_output_product: the bad pixels, or None
    recommended_mask,     \* create_output_product: the recommended mask, or None
    written_mask,         \* the recommended_mask layer of the artifact, or None
    mask_error,           \* the exception raised on the way, or "none"
    unw_arr_ma,           \* create_output_product: the unwrapped raster, masked
    disp_arr,             \* create_output_product: the displacement layer
    filtered_disp_arr,    \* create_output_product: the short wavelength layer
    reference_cslc_files, \* create_output_product: the reference acquisitions
    secondary_cslc_files, \* create_output_product: the secondary acquisitions
    los_east_file,        \* create_output_product: the east line-of-sight file, or None
    los_north_file,       \* create_output_product: the north line-of-sight file, or None
    corrections,          \* create_output_product: the corrections dict
    shape,                \* create_output_product: the shape of the product grid
    baseline_raised,      \* compute_baselines raised an exception
    footprint_raised,     \* extract_footprint raised an exception
    tide_raised,          \* calculate_solid_earth_tides_correction raised one
    footprint_wkt,        \* create_output_product: the footprint, or None
    root_layers,          \* the artifact's root layers, or None when no file exists
    corrections_group,    \* the artifact's corrections group, or None
    identification_group, \* the artifact's identification group, or None
    metadata_group,       \* the artifact's metadata group, or None
    assembly_error,       \* the exception create_output_product raised, or "none"
    data_files,           \* which of the quality rasters' files exist, once looked at
    handles,              \* the modes of the handles now open on output_name
    opened,               \* the modes output_name was opened in so far, in order
    comp_slc_dict,        \* create_compressed_products: its (burst, file) pairs, in order
    inventory_files,      \* create_compressed_products: cslc_file_list
    compressed_slc_infos, \* create_compressed_products: the tasks, in order
    max_workers,          \* create_compressed_products: the worker count asked for
    task_status,          \* the state of each task's future
    collected,            \* how many results the caller has taken from map
    written_files,        \* the output files written so far
    results,              \* the path list returned, or None
    pool_error,           \* the exception create_compressed_products raised, or "none"
    task_info,            \* process_compressed_slc: the info it is given
    outname,              \* process_compressed_slc: the output path, or None
    existed,              \* outname held a file when process_compressed_slc began
    output_file,          \* what the file at outname holds, or None without a file
    task_log,             \* the messages process_compressed_slc logged at info level
    task_error,           \* the exception process_compressed_slc raised, or "none"
    task_result           \* the path process_compressed_slc returned, or None

vars == <<pc, input_dates, is_compressed, reference_datetimes, reference_dates,
          ref_pos, output_reference_idx, extra_reference_date, subscripts,
          algorithm_parameters, param_dict, override_params, merge_error,
          cslc_file_list, frame_burst_ids, translate_error, workflow,
          temporal_coherence, conncomps, similarity, water_mask_data, disp_shape,
          bad_pixel_mask, recommended_mask, written_mask, mask_error,
          unw_arr_ma, disp_arr, filtered_disp_arr,
          reference_cslc_files, secondary_cslc_files, los_east_file,
          los_north_file, corrections, shape, baseline_raised, footprint_raised,
          tide_raised, footprint_wkt, root_layers, corrections_group,
          identification_group, metadata_group, assembly_error, data_files,
          handles, opened, comp_slc_dict, inventory_files,
          compressed_slc_infos, max_workers, task_status, collected,
          written_files, results, pool_error,
          task_info, outname, existed, output_file, task_log, task_error,
          task_result>>

resolver_vars == <<input_dates, is_compressed, reference_datetimes, reference_dates,
                   ref_pos, output_reference_idx, extra_reference_date, subscripts>>

merge_vars == <<algorithm_parameters, param_dict, override_params, merge_error>>

translate_vars == <<cslc_file_list, frame_burst_ids, translate_error, workflow>>

mask_vars == <<temporal_coherence, conncomps, similarity, water_mask_data,
               disp_shape, bad_pixel_mask, recommended_mask, written_mask,
               mask_error, unw_arr_ma, disp_arr, filtered_disp_arr>>

assembly_vars == <<reference_cslc_files, secondary_cslc_files, los_east_file,
                   los_north_file, corrections, shape, baseline_raised,
                   footprint_raised, tide_raised, footprint_wkt, root_layers,
                   corrections_group, identification_group, metadata_group,
                   assembly_error, data_files, handles, opened>>

\* The state of pge_runconfig.py, and the state of product.py.
runconfig_vars == <<resolver_vars, merge_vars, translate_vars>>
pool_vars == <<comp_slc_dict, inventory_files, compressed_slc_infos, max_workers, task_status, collected,
               written_files, results, pool_error>>

task_vars == <<task_info, outname, existed, output_file, task_log, task_error,
               task_result>>

product_vars == <<mask_vars, assembly_vars, pool_vars, task_vars>>

\* What the mask computation, the assembly and the producer of compressed
\* acquisitions leave alone.
outside_mask == <<runconfig_vars, assembly_vars, pool_vars, task_vars>>
outside_assembly == <<runconfig_vars, mask_vars, pool_vars, task_vars>>
outside_pool == <<runconfig_vars, mask_vars, assembly_vars, task_vars>>
outside_task == <<runconfig_vars, mask_vars, assembly_vars, pool_vars>>

-----------------------------------------------------------------------------
(* Bounds of the model.                                                    *)

\* Longest acquisition timeline drawn.
MaxLen == 3
\* Acquisition dates are 1..MaxDate; requests range over 0..MaxDate+1.
MaxDate == 3
\* Most requested changeovers drawn for a frame.
MaxRefs == 2
\* Leaf values of a parameter dict are 0..MaxLeaf.
MaxLeaf == 1

-----------------------------------------------------------------------------
(* Python values used by the resolver.                                     *)

\* Python's None for an Optional[date]: the empty option; Some(d) is {d}.
None == {}
Some(d) == {d}

\* datetime.date(): drop the time of day (datetimes count half days).
DateOf(dt) == dt \div 2

\* A datetime at midnight, or at noon, of day d.
Midnight(d) == 2 * d
Noon(d) == 2 * d + 1

\* lst[i] with Python's subscript rule: a negative i counts from the end.
PySubscript(lst, i) == IF i < 0 THEN lst[Len(lst) + i + 1] ELSE lst[i + 1]

\* sorted(S) for a finite set of integers.
RECURSIVE sorted(_)
sorted(S) ==
    IF S = {} THEN <<>>
    ELSE LET m == CHOOSE x \in S : \A y \in S : x <= y
         IN <<m>> \o sorted(S \ {m})

-----------------------------------------------------------------------------
(* _get_first_after_selected: the first index whose date is >= the         *)
(* selected date, and -1 when the for loop runs out (its else clause).     *)

RECURSIVE FirstFrom(_, _, _)
FirstFrom(dates, selected_date, idx) ==
    IF idx >= Len(dates) THEN -1
    ELSE IF PySubscript(dates, idx) >= selected_date THEN idx
    ELSE FirstFrom(dates, selected_date, idx + 1)

_get_first_after_selected(dates, selected_date) == FirstFrom(dates, selected_date, 0)

\* A slip: the filter dropped, so the list is never empty.
candidate_dates_Unfiltered(dates, ref_date) == dates

\* candidate_dates = [d for d in input_dates if d >= ref_date]
candidate_dates(dates, ref_date) ==
    SelectSeq(dates, LAMBDA d : d >= ref_date)

\* A slip: the test for the first date dropped.
IsFirstDate_Never(nearest_idx) == FALSE

\* if nearest_idx == 0: continue
IsFirstDate(nearest_idx) == nearest_idx = 0

\* A slip: the first changeover found is kept, later ones are ignored.
UpdateReferenceIdx_KeepFirst(loc, nearest_idx) ==
    [loc EXCEPT !.idx = IF @ = 0 THEN nearest_idx ELSE @,
                !.subs = @ \cup {nearest_idx}]

\* A slip: the index counted from 1 instead of 0.
UpdateReferenceIdx_OffByOne(loc, nearest_idx) ==
    [loc EXCEPT !.idx = nearest_idx + 1,
                !.subs = @ \cup {nearest_idx}]

\* elif is_compressed[nearest_idx]: output_reference_idx = nearest_idx
UpdateReferenceIdx(loc, nearest_idx) ==
    [loc EXCEPT !.idx = nearest_idx,
                !.subs = @ \cup {nearest_idx}]

\* A slip: a regular entry moves output_reference_idx as well.
SetExtraReference_AndIdx(loc, dates, nearest_idx, ref_date) ==
    [loc EXCEPT !.idx = nearest_idx,
                !.extra = Some(PySubscript(dates, nearest_idx)),
                !.subs = @ \cup {nearest_idx}]

\* else: inp_date = input_dates[nearest_idx]
\*       if inp_date >= ref_date: extra_reference_date = inp_date
SetExtraReference(loc, dates, nearest_idx, ref_date) ==
    LET inp_date == PySubscript(dates, nearest_idx)
    IN IF inp_date >= ref_date
       THEN [loc EXCEPT !.extra = Some(inp_date),
                        !.subs = @ \cup {nearest_idx}]
       ELSE [loc EXCEPT !.subs = @ \cup {nearest_idx}]

(* One pass of the body of `for ref_date in reference_dates`, on the locals *)
(* loc = [idx, extra, subs]: idx is output_reference_idx, extra is          *)
(* extra_reference_date, subs the subscripts applied to is_compressed.      *)
LoopBody(dates, compressed, loc, ref_date) ==
    IF candidate_dates(dates, ref_date) = <<>> THEN loc
    ELSE LET nearest_idx == _get_first_after_selected(dates, ref_date)
         IN IF IsFirstDate(nearest_idx) THEN loc
            ELSE IF PySubscript(compressed, nearest_idx)
                 THEN UpdateReferenceIdx(loc, nearest_idx)
                 ELSE SetExtraReference(loc, dates, nearest_idx, ref_date)

\* A slip: the default index is the last entry (Python's -1).
InitialLocals_LastIdx == [idx |-> -1, extra |-> None, subs |-> {}]

\* The locals before the loop: output_reference_idx = 0, extra_reference_date = None.
InitialLocals == [idx |-> 0, extra |-> None, subs |-> {}]

RECURSIVE LoopFrom(_, _, _, _, _)
LoopFrom(dates, compressed, refs, pos, loc) ==
    IF pos >= Len(refs) THEN loc
    ELSE LoopFrom(dates, compressed, refs, pos + 1,
                  LoopBody(dates, compressed, loc, refs[pos + 1]))

\* _compute_reference_dates as a function of the requested datetimes and the
\* template burst's (dates, compressed flags): the pair it returns.
_compute_reference_dates(ref_datetimes, dates, compressed) ==
    LET refs == sorted({DateOf(d) : d \in ref_datetimes})
        loc == LoopFrom(dates, compressed, refs, 0, InitialLocals)
    IN <<loc.idx, loc.extra>>

-----------------------------------------------------------------------------
(* Inputs of the resolver.                                                 *)

\* Sequences of dates as sort_files_by_date leaves them: ascending.
IsAscending(s) == \A i \in 1..(Len(s) - 1) : s[i] <= s[i + 1]

Timelines(n) == {s \in [1..n -> 1..MaxDate] : IsAscending(s)}

\* Requested datetimes: any time of any day from before the first possible
\* acquisition to after the last.
RequestDatetimes == (Midnight(0))..(Noon(MaxDate + 1))

RequestSets == {S \in SUBSET RequestDatetimes : Cardinality(S) <= MaxRefs}

\* The end-to-end scenario of the specification: acquisitions on 2020-01-01
\* (regular), 2020-02-01 (regular), 2020-03-01 (compressed) and 2020-04-01
\* (regular), as days 1, 2, 4, 5; requests 2020-02-15 (day 3) and 2020-03-01.
ScenarioDates == <<1, 2, 4, 5>>
ScenarioCompressed == <<FALSE, FALSE, TRUE, FALSE>>
ScenarioRequests == {Midnight(3), Midnight(4)}

-----------------------------------------------------------------------------
(* Python values used by the merge: a value is a leaf (a scalar, a list or *)
(* None, numbered 0..MaxLeaf) or a dict from keys to values.               *)

EmptyItems == [k \in {} |-> 0]
Leaf(n) == [isdict |-> FALSE, v |-> n, d |-> EmptyItems]
Dict(f) == [isdict |-> TRUE, v |-> 0, d |-> f]
EmptyDict == Dict(EmptyItems)

\* The keys of the modelled dicts, in the order dict.items() yields them.
\* The dicts drawn are closed under renaming the keys, so one order stands
\* for every order.
ItemsOrder == <<"a", "b">>
Keys == {ItemsOrder[i] : i \in 1..Len(ItemsOrder)}

\* The field names of the parameter record that the translation reads.
FieldOrder == <<"output_options", "timeseries_options", "add_overviews",
                "run_velocity", "method">>

\* Every key a modelled dict may hold, in iteration order.
IterationOrder == ItemsOrder \o FieldOrder

Leaves == {Leaf(n) : n \in 0..MaxLeaf}

\* Dicts whose values are drawn from Vals, over every subset of the keys.
DictsOver(Vals) == {Dict(f) : f \in UNION {[K -> Vals] : K \in SUBSET Keys}}

\* Dicts nested one level (values: leaves or {}) and two levels deep.
Dicts1 == DictsOver(Leaves \cup {EmptyDict})
Dicts2 == DictsOver(Leaves \cup Dicts1)

\* d[k] = v on a dict value.
SetItem(dct, k, v) ==
    Dict([x \in (DOMAIN dct.d) \cup {k} |-> IF x = k THEN v ELSE dct.d[x]])

\* A slip: the nested dict of base is not read, so the override's record
\* replaces it (a shallow update).
GetOrEmpty_Fresh(dct, k) == EmptyDict

\* base.get(k, {}) on a dict value.
GetOrEmpty(dct, k) == IF k \in DOMAIN dct.d THEN dct.d[k] ELSE EmptyDict

\* A slip: base.setdefault(k, v), so that a value of base wins.
AssignLeaf_SetDefault(base, k, v) ==
    IF k \in DOMAIN base.d THEN base ELSE SetItem(base, k, v)

\* A slip: base[k] += v, so that a scalar override accumulates.
AssignLeaf_Accumulate(base, k, v) ==
    IF k \in DOMAIN base.d /\ ~base.d[k].isdict
    THEN SetItem(base, k, Leaf(base.d[k].v + v.v))
    ELSE SetItem(base, k, v)

\* else: base[k] = v
AssignLeaf(base, k, v) == SetItem(base, k, v)

Raised(err, val) == [err |-> err, val |-> val]
Returned(val) == [err |-> "none", val |-> val]

(* _nested_update(base, updates): the dict it returns, which is base       *)
(* updated in place, or the exception it raises, with base as the          *)
(* statements executed before the exception left it.                       *)
(*   - base.get on a value that is no dict raises AttributeError;          *)
(*   - base[k] = v on a value that is no dict raises TypeError.            *)
RECURSIVE _nested_update(_, _)
RECURSIVE UpdateItems(_, _, _)

\* The for loop over updates.items() from position pos of IterationOrder,
\* on acc = the outcome so far.
UpdateItems(acc, updates, pos) ==
    IF pos > Len(IterationOrder) \/ acc.err # "none" THEN acc
    ELSE LET k == IterationOrder[pos]
             base == acc.val
         IN IF k \notin DOMAIN updates.d THEN UpdateItems(acc, updates, pos + 1)
            ELSE LET v == updates.d[k]
                 IN IF v.isdict
                    THEN IF ~base.isdict THEN Raised("AttributeError", base)
                         ELSE LET sub == _nested_update(GetOrEmpty(base, k), v)
                              IN IF sub.err # "none"
                                 THEN Raised(sub.err,
                                             IF k \in DOMAIN base.d
                                             THEN SetItem(base, k, sub.val)
                                             ELSE base)
                                 ELSE UpdateItems(Returned(SetItem(base, k, sub.val)),
                                                  updates, pos + 1)
                    ELSE IF ~base.isdict THEN Raised("TypeError", base)
                         ELSE UpdateItems(Returned(AssignLeaf(base, k, v)),
                                          updates, pos + 1)

_nested_update(base, updates) == UpdateItems(Returned(base), updates, 1)

-----------------------------------------------------------------------------
(* The state machine.                                                      *)

ResolverIdle ==
    /\ input_dates = <<>>
    /\ is_compressed = <<>>
    /\ reference_datetimes = {}
    /\ reference_dates = <<>>
    /\ ref_pos = 0
    /\ output_reference_idx = 0
    /\ extra_reference_date = None
    /\ subscripts = {}

MergeIdle ==
    /\ algorithm_parameters = EmptyDict
    /\ param_dict = EmptyDict
    /\ override_params = EmptyDict
    /\ merge_error = "none"

TranslateIdle ==
    /\ cslc_file_list = <<>>
    /\ frame_burst_ids = {}
    /\ translate_error = "none"
    /\ workflow = None

RunConfigIdle == ResolverIdle /\ MergeIdle /\ TranslateIdle

MaskIdle ==
    /\ temporal_coherence = <<>>
    /\ conncomps = <<>>
    /\ similarity = <<>>
    /\ water_mask_data = None
    /\ disp_shape = 0
    /\ bad_pixel_mask = None
    /\ recommended_mask = None
    /\ written_mask = None
    /\ mask_error = "none"
    /\ unw_arr_ma = <<>>
    /\ disp_arr = <<>>
    /\ filtered_disp_arr = <<>>

AssemblyIdle ==
    /\ reference_cslc_files = <<>>
    /\ secondary_cslc_files = <<>>
    /\ los_east_file = None
    /\ los_north_file = None
    /\ corrections = EmptyItems
    /\ shape = 0
    /\ baseline_raised = FALSE
    /\ footprint_raised = FALSE
    /\ tide_raised = FALSE
    /\ footprint_wkt = None
    /\ root_layers = None
    /\ corrections_group = None
    /\ identification_group = None
    /\ metadata_group = None
    /\ assembly_error = "none"
    /\ data_files = EmptyItems
    /\ handles = <<>>
    /\ opened = <<>>

PoolIdle ==
    /\ comp_slc_dict = <<>>
    /\ inventory_files = <<>>
    /\ compressed_slc_infos = <<>>
    /\ max_workers = 0
    /\ task_status = <<>>
    /\ collected = 0
    /\ written_files = {}
    /\ results = None
    /\ pool_error = "none"

TaskIdle ==
    /\ task_info = None
    /\ outname = None
    /\ existed = FALSE
    /\ output_file = None
    /\ task_log = <<>>
    /\ task_error = "none"
    /\ task_result = None

ProductIdle == MaskIdle /\ AssemblyIdle /\ PoolIdle /\ TaskIdle

\* _compute_reference_dates is entered with the template burst's files and
\* the frame's requested datetimes.
InitResolve ==
    /\ pc = "resolve_start"
    /\ \/ \E n \in 1..MaxLen :
            /\ input_dates \in Timelines(n)
            /\ is_compressed \in [1..n -> BOOLEAN]
            /\ reference_datetimes \in RequestSets
       \/ /\ input_dates = ScenarioDates
          /\ is_compressed = ScenarioCompressed
          /\ reference_datetimes = ScenarioRequests
    /\ reference_dates = <<>>
    /\ ref_pos = 0
    /\ output_reference_idx = 0
    /\ extra_reference_date = None
    /\ subscripts = {}
    /\ MergeIdle
    /\ TranslateIdle
    /\ ProductIdle

\* Lines 448-450: the defaults, and the sorted, de-duplicated request dates.
ResolveBegin ==
    /\ pc = "resolve_start"
    /\ output_reference_idx' = InitialLocals.idx
    /\ extra_reference_date' = InitialLocals.extra
    /\ subscripts' = InitialLocals.subs
    /\ reference_dates' = sorted({DateOf(d) : d \in reference_datetimes})
    /\ ref_pos' = 0
    /\ pc' = "resolve_loop"
    /\ UNCHANGED <<product_vars, input_dates, is_compressed, reference_datetimes, merge_vars,
                   translate_vars>>

\* Lines 452-472: one pass of the for loop.
ResolveIterate ==
    /\ pc = "resolve_loop"
    /\ ref_pos < Len(reference_dates)
    /\ LET loc == LoopBody(input_dates, is_compressed,
                           [idx |-> output_reference_idx,
                            extra |-> extra_reference_date,
                            subs |-> subscripts],
                           reference_dates[ref_pos + 1])
       IN /\ output_reference_idx' = loc.idx
          /\ extra_reference_date' = loc.extra
          /\ subscripts' = loc.subs
    /\ ref_pos' = ref_pos + 1
    /\ UNCHANGED <<product_vars, pc, input_dates, is_compressed, reference_datetimes,
                   reference_dates, merge_vars, translate_vars>>

\* Line 474: return output_reference_idx, extra_reference_date.
ResolveReturn ==
    /\ pc = "resolve_loop"
    /\ ref_pos = Len(reference_dates)
    /\ pc' = "resolve_done"
    /\ UNCHANGED <<product_vars, resolver_vars, merge_vars, translate_vars>>

NextResolve == ResolveBegin \/ ResolveIterate \/ ResolveReturn

SpecResolve == InitResolve /\ [][NextResolve]_vars

\* _override_parameters has dumped the record into param_dict and loaded the
\* frame's overrides (lines 412-417).
InitMerge ==
    /\ pc = "merge_start"
    /\ algorithm_parameters \in Dicts2
    /\ param_dict = algorithm_parameters
    /\ override_params \in Dicts2
    /\ merge_error = "none"
    /\ ResolverIdle
    /\ TranslateIdle
    /\ ProductIdle

\* Line 420: param_dict = _nested_update(param_dict, override_params).
NestedUpdateCall ==
    /\ pc = "merge_start"
    /\ LET out == _nested_update(param_dict, override_params)
       IN /\ param_dict' = out.val
          /\ merge_error' = out.err
          /\ pc' = IF out.err = "none" THEN "merge_done" ELSE "merge_raised"
    /\ UNCHANGED <<product_vars, algorithm_parameters, override_params, resolver_vars,
                   translate_vars>>

NextMerge == NestedUpdateCall

SpecMerge == InitMerge /\ [][NextMerge]_vars

-----------------------------------------------------------------------------
(* Properties of the reference-date resolver, stated on the timeline and   *)
(* the requests themselves, apart from the loop that computes the result.  *)

\* The requested calendar dates, de-duplicated.
RequestedDates == {DateOf(d) : d \in reference_datetimes}

\* The timeline indexes (from 0) whose date is on or after r.
IndexesOnOrAfter(r) == {i \in 0..(Len(input_dates) - 1) : input_dates[i + 1] >= r}

\* r addresses an acquisition of the stack.
Lands(r) == IndexesOnOrAfter(r) # {}

\* The index r lands on: the least one whose date is on or after r.
Landing(r) == CHOOSE i \in IndexesOnOrAfter(r) : \A j \in IndexesOnOrAfter(r) : i <= j

LandsCompressed(r) == Lands(r) /\ Landing(r) > 0 /\ is_compressed[Landing(r) + 1]
LandsRegular(r) == Lands(r) /\ Landing(r) > 0 /\ ~is_compressed[Landing(r) + 1]

\* The latest date of a non-empty set of dates.
Latest(S) == CHOOSE r \in S : \A q \in S : q <= r

CompressedRequests == {r \in RequestedDates : LandsCompressed(r)}
RegularRequests == {r \in RequestedDates : LandsRegular(r)}

\* r is later than every acquisition of the timeline.
AfterAll(r) == \A i \in 1..Len(input_dates) : input_dates[i] < r

Resolved == pc = "resolve_done"

\* C1: the result keeps the last applicable request per field:
\* output_reference_idx is the landing index of the latest requested date
\* that lands on a compressed entry past index 0 (0 if there is none),
\* extra_reference_date the landing date of the latest requested date that
\* lands on a regular entry past index 0 (None if there is none); and the
\* end-to-end scenario resolves to (2, None).
C1_LastApplicableWins ==
    Resolved =>
        /\ output_reference_idx =
               IF CompressedRequests = {} THEN 0
               ELSE Landing(Latest(CompressedRequests))
        /\ extra_reference_date =
               IF RegularRequests = {} THEN None
               ELSE Some(input_dates[Landing(Latest(RegularRequests)) + 1])
        /\ (/\ input_dates = ScenarioDates
            /\ is_compressed = ScenarioCompressed
            /\ reference_datetimes = ScenarioRequests)
           => (output_reference_idx = 2 /\ extra_reference_date = None)

\* Two requests have landed on two different compressed entries past index
\* 0, and the later one's index is the result.
C1_Witness ==
    /\ Resolved
    /\ \E r1, r2 \in CompressedRequests :
          /\ r1 < r2
          /\ Landing(r1) # Landing(r2)
          /\ output_reference_idx = Landing(r2)

\* C2: a single requested date that lands on a compressed entry at index
\* i > 0 resolves to output_reference_idx = i and no extra reference date.
C2_CompressedBranch ==
    (Resolved /\ \E r \in RequestedDates : RequestedDates = {r} /\ LandsCompressed(r))
        => /\ \A r \in RequestedDates : output_reference_idx = Landing(r)
           /\ extra_reference_date = None

C2_Witness ==
    /\ Resolved
    /\ \E r \in RequestedDates :
          /\ RequestedDates = {r}
          /\ LandsCompressed(r)
          /\ output_reference_idx = Landing(r)
          /\ output_reference_idx > 0

\* C3: a single requested date that lands on a regular entry at index
\* i > 0 resolves to extra_reference_date = the date of entry i, with
\* output_reference_idx left at 0.
C3_RegularBranch ==
    (Resolved /\ \E r \in RequestedDates : RequestedDates = {r} /\ LandsRegular(r))
        => /\ \A r \in RequestedDates :
                 extra_reference_date = Some(input_dates[Landing(r) + 1])
           /\ output_reference_idx = 0

C3_Witness ==
    /\ Resolved
    /\ \E r \in RequestedDates :
          /\ RequestedDates = {r}
          /\ LandsRegular(r)
          /\ extra_reference_date = Some(input_dates[Landing(r) + 1])

\* C4: with no requested date the result is (0, None), on every timeline.
C4_EmptyRequestsDefault ==
    (Resolved /\ reference_datetimes = {})
        => (output_reference_idx = 0 /\ extra_reference_date = None)

C4_Witness ==
    /\ Resolved
    /\ reference_datetimes = {}
    /\ Len(input_dates) > 1
    /\ is_compressed[Len(input_dates)]

\* C5: a single requested date on or before the first timeline date is
\* skipped: the result is (0, None), the first entry compressed or not.
C5_SkipFirst ==
    (Resolved /\ \E r \in RequestedDates : RequestedDates = {r} /\ r <= input_dates[1])
        => (output_reference_idx = 0 /\ extra_reference_date = None)

C5_Witness ==
    /\ Resolved
    /\ \E r \in RequestedDates : RequestedDates = {r} /\ r <= input_dates[1]
    /\ ~is_compressed[1]
    /\ Len(input_dates) > 1

\* C6: a requested date later than every acquisition is skipped: the result
\* is the one obtained without such dates, and -1 never subscripts the
\* timeline.
C6_LateRequestSkipped ==
    /\ -1 \notin subscripts
    /\ Resolved =>
          <<output_reference_idx, extra_reference_date>> =
              _compute_reference_dates(
                  {d \in reference_datetimes : ~AfterAll(DateOf(d))},
                  input_dates, is_compressed)

\* A late request was processed after one that landed past index 0, on a
\* timeline whose last entry (the one -1 would address) is compressed.
C6_Witness ==
    /\ Resolved
    /\ \E r \in RequestedDates : AfterAll(r)
    /\ \E r \in RequestedDates : LandsRegular(r)
    /\ is_compressed[Len(input_dates)]
    /\ extra_reference_date # None
    /\ output_reference_idx = 0

-----------------------------------------------------------------------------
(* Properties of the override merge.                                       *)

\* The key paths of a dict that end at a leaf.
RECURSIVE LeafPaths(_)
LeafPaths(dct) ==
    UNION {IF dct.d[k].isdict
           THEN {<<k>> \o p : p \in LeafPaths(dct.d[k])}
           ELSE {<<k>>} : k \in DOMAIN dct.d}

\* The value at a key path: {} when the path is absent, else {value}.
RECURSIVE At(_, _)
At(val, path) ==
    IF path = <<>> THEN {val}
    ELSE IF val.isdict /\ Head(path) \in DOMAIN val.d
         THEN At(val.d[Head(path)], Tail(path))
         ELSE {}

\* Every key of base absent from ov is in res with its value of base, at
\* every level where both hold a record.
RECURSIVE Untouched(_, _, _)
Untouched(base, ov, res) ==
    /\ res.isdict
    /\ \A k \in DOMAIN base.d :
          IF k \notin DOMAIN ov.d
          THEN k \in DOMAIN res.d /\ res.d[k] = base.d[k]
          ELSE (base.d[k].isdict /\ ov.d[k].isdict)
                   => (k \in DOMAIN res.d /\ Untouched(base.d[k], ov.d[k], res.d[k]))

\* ov holds a record at a key path where base holds a value that is no record.
RECURSIVE ShapeConflict(_, _)
ShapeConflict(base, ov) ==
    \E k \in (DOMAIN ov.d) \cap (DOMAIN base.d) :
        /\ ov.d[k].isdict
        /\ \/ ~base.d[k].isdict
           \/ ShapeConflict(base.d[k], ov.d[k])

Merged == pc = "merge_done"

\* C7: in the merged result every leaf of the overrides, at any depth, has
\* the override's value, whatever the base held there.
C7_MergePrecedence ==
    Merged => \A p \in LeafPaths(override_params) :
                  At(param_dict, p) = At(override_params, p)

\* A nested leaf of the overrides replaced a different value of the base.
C7_Witness ==
    /\ Merged
    /\ \E p \in LeafPaths(override_params) :
          /\ Len(p) = 2
          /\ At(algorithm_parameters, p) # {}
          /\ At(algorithm_parameters, p) # At(override_params, p)
          /\ At(param_dict, p) = At(override_params, p)

\* C8: merging the same overrides into the merged result changes nothing.
C8_MergeIdempotent ==
    Merged => _nested_update(param_dict, override_params) = Returned(param_dict)

\* The first merge changed the base, at a nested leaf.
C8_Witness ==
    /\ Merged
    /\ param_dict # algorithm_parameters
    /\ \E p \in LeafPaths(override_params) :
          Len(p) = 2 /\ At(algorithm_parameters, p) # At(param_dict, p)
    /\ _nested_update(param_dict, override_params).err = "none"

\* C9: every key of the base that the overrides do not name is in the
\* merged result with its base value, at every nesting level.
C9_AbsentKeysUntouched ==
    Merged => Untouched(algorithm_parameters, override_params, param_dict)

\* A nested record of the base was merged into, and kept a key that the
\* override's nested record does not name.
C9_Witness ==
    /\ Merged
    /\ param_dict # algorithm_parameters
    /\ \E k \in (DOMAIN algorithm_parameters.d) \cap (DOMAIN override_params.d) :
          /\ algorithm_parameters.d[k].isdict
          /\ override_params.d[k].isdict
          /\ DOMAIN override_params.d[k].d # {}
          /\ \E x \in DOMAIN algorithm_parameters.d[k].d :
                /\ x \notin DOMAIN override_params.d[k].d
                /\ At(param_dict, <<k, x>>) = At(algorithm_parameters, <<k, x>>)

\* C10: when the overrides hold a record where the base holds a value that
\* is no record, the merge fails, and fails with a ConfigError.
C10_ShapeConflictIsConfigError ==
    (pc \in {"merge_done", "merge_raised"}
        /\ ShapeConflict(algorithm_parameters, override_params))
        => (pc = "merge_raised" /\ merge_error = "ConfigError")

\* C29: on every non-empty timeline and every set of requests the result is
\* well-formed: output_reference_idx is an index of the timeline, and when it
\* is not 0 the entry there is compressed; extra_reference_date, when set, is
\* the date of a regular entry at an index above 0 and lies on or after a
\* requested date.
C29_ResultWellFormed ==
    Resolved
        => /\ output_reference_idx \in 0..(Len(input_dates) - 1)
           /\ output_reference_idx # 0 => is_compressed[output_reference_idx + 1]
           /\ \A extra \in extra_reference_date :
                /\ \E i \in 2..Len(input_dates) :
                      input_dates[i] = extra /\ ~is_compressed[i]
                /\ \E r \in RequestedDates : extra >= r

\* A result with both fields set: a compressed entry above 0 as the
\* reference and a regular entry's date as the extra reference.
C29_Witness ==
    /\ Resolved
    /\ output_reference_idx > 0
    /\ is_compressed[output_reference_idx + 1]
    /\ extra_reference_date # None
    /\ \E i \in 2..Len(input_dates) :
          extra_reference_date = Some(input_dates[i]) /\ ~is_compressed[i]

-----------------------------------------------------------------------------
(* RunConfig.to_workflow: the translation of a run configuration.          *)

\* Most input files drawn for one translation.
MaxFiles == 2

\* The burst ids and acquisition dates that the input files are drawn from.
BurstIds == {1, 2}
FileDates == {1, 2}

CslcFiles == [burst : BurstIds, date : FileDates, compressed : BOOLEAN]

\* sort_files_by_date: a stable sort of the files on their date.
RECURSIVE InsertByDate(_, _)
InsertByDate(sortedFiles, f) ==
    IF sortedFiles = <<>> THEN <<f>>
    ELSE IF f.date < Head(sortedFiles).date THEN <<f>> \o sortedFiles
    ELSE <<Head(sortedFiles)>> \o InsertByDate(Tail(sortedFiles), f)

RECURSIVE sort_files_by_date(_)
sort_files_by_date(files) ==
    IF files = <<>> THEN <<>>
    ELSE InsertByDate(sort_files_by_date(SubSeq(files, 1, Len(files) - 1)),
                      files[Len(files)])

\* A slip: the files of every burst taken for the template's.
FilesOfBurst_All(files, burst_id) == files

\* group_by_burst(files)[burst_id], and the keys of group_by_burst(files).
FilesOfBurst(files, burst_id) == SelectSeq(files, LAMBDA f : f.burst = burst_id)
BurstsOf(files) == {files[i].burst : i \in 1..Len(files)}

\* list(burst_to_file_list.keys())[0]: the template burst, the first key of
\* the grouping, which is keyed in burst id order.
TemplateBurst(files) == CHOOSE b \in BurstsOf(files) : \A c \in BurstsOf(files) : b <= c

\* The dates and the compressed flags of a list of files.
DatesOfFiles(files) == [i \in 1..Len(files) |-> files[i].date]
CompressedOfFiles(files) == [i \in 1..Len(files) |-> files[i].compressed]

\* Values of the three policy fields: booleans, and the inversion method.
PyFalse == Leaf(0)
PyTrue == Leaf(1)
MethodL1 == Leaf(1)
MethodL2 == Leaf(0)

\* The dumped AlgorithmParameters with the given values of add_overviews,
\* run_velocity and method.
ParameterRecord(overviews, velocity, method) ==
    Dict([k \in {"output_options", "timeseries_options"} |->
            IF k = "output_options"
            THEN Dict([x \in {"add_overviews"} |-> overviews])
            ELSE Dict([x \in {"run_velocity", "method"} |->
                         IF x = "run_velocity" THEN velocity ELSE method])])

\* Algorithm parameter documents: the product line's policy, its opposite,
\* and two mixtures.
ParameterDocuments ==
    {ParameterRecord(PyFalse, PyFalse, MethodL1),
     ParameterRecord(PyTrue, PyTrue, MethodL2),
     ParameterRecord(PyTrue, PyFalse, MethodL2),
     ParameterRecord(PyFalse, PyTrue, MethodL1)}

\* Overrides of the frame: none; the opposite of the policy in all three
\* fields; overviews only; a scalar where the record holds a nested record;
\* a record where it holds a scalar; and overviews set before a record is
\* met where run_velocity holds a scalar.
FrameOverrides ==
    {EmptyDict,
     ParameterRecord(PyTrue, PyTrue, MethodL2),
     Dict([k \in {"output_options"} |-> Dict([x \in {"add_overviews"} |-> PyTrue])]),
     Dict([k \in {"timeseries_options"} |-> PyTrue]),
     Dict([k \in {"output_options"} |->
             Dict([x \in {"add_overviews"} |-> Dict([y \in {"a"} |-> PyTrue])])]),
     Dict([k \in {"output_options", "timeseries_options"} |->
             IF k = "output_options"
             THEN Dict([x \in {"add_overviews"} |-> PyTrue])
             ELSE Dict([x \in {"run_velocity"} |-> Dict([y \in {"a"} |-> PyTrue])])])}

\* AlgorithmParameters(**param_dict): the record validates when its nested
\* records are dicts and its fields are scalars.
IsValidParameters(dct) ==
    /\ dct.isdict
    /\ \A k \in {"output_options", "timeseries_options"} :
          /\ k \in DOMAIN dct.d
          /\ dct.d[k].isdict
          /\ \A x \in DOMAIN dct.d[k].d : ~dct.d[k].d[x].isdict

\* _override_parameters: the merged and validated record, or the exception.
_override_parameters(parameters, overrides) ==
    LET out == _nested_update(parameters, overrides)
    IN IF out.err # "none" THEN out
       ELSE IF ~IsValidParameters(out.val) THEN Raised("ValidationError", out.val)
       ELSE out

\* A slip: the merge works on the record itself.
RecordAfterOverride_InPlace(record, merged) == merged

\* Line 412: param_dict = algorithm_parameters.model_dump() is a dict of its
\* own, so the merge in place at line 420 leaves the record as it was.
RecordAfterOverride(record, merged) == record

\* A slip: the difference taken the other way round.
MismatchedBursts_Reversed(data_burst_ids, registry_burst_ids) ==
    registry_burst_ids \ data_burst_ids

\* mismatched_bursts = data_burst_ids - frame_burst_ids
MismatchedBursts(data_burst_ids, registry_burst_ids) ==
    data_burst_ids \ registry_burst_ids

\* A slip: the inversion method is left as configured.
ForcePolicy_KeepMethod(dct) ==
    LET out == SetItem(dct.d["output_options"], "add_overviews", PyFalse)
        ts == SetItem(dct.d["timeseries_options"], "run_velocity", PyFalse)
    IN SetItem(SetItem(dct, "output_options", out), "timeseries_options", ts)

\* Lines 308-312: add_overviews = False, run_velocity = False, method = "L1".
ForcePolicy(dct) ==
    LET out == SetItem(dct.d["output_options"], "add_overviews", PyFalse)
        ts == SetItem(SetItem(dct.d["timeseries_options"], "run_velocity", PyFalse),
                      "method", MethodL1)
    IN SetItem(SetItem(dct, "output_options", out), "timeseries_options", ts)

\* The requested changeovers drawn for the frame of a translation.
TranslateRequests == {{}, {Midnight(1)}, {Noon(2)}}

\* The acquisitions of one burst: at most one file on each date.
BurstTimelines ==
    {t \in UNION {[1..n -> [date : FileDates, compressed : BOOLEAN]] :
                     n \in 1..Cardinality(FileDates)} :
        \A i, j \in 1..Len(t) : i < j => t[i].date < t[j].date}

FilesOfTimeline(burst_id, timeline) ==
    [i \in 1..Len(timeline) |-> [burst |-> burst_id, date |-> timeline[i].date,
                                 compressed |-> timeline[i].compressed]]

\* The input lists of a frame of two bursts, each burst with a timeline of
\* its own, handed in with either burst first.
FrameFileLists ==
    UNION {{FilesOfTimeline(1, t1) \o FilesOfTimeline(2, t2),
            FilesOfTimeline(2, t2) \o FilesOfTimeline(1, t1)} :
              t1 \in BurstTimelines, t2 \in BurstTimelines}

\* Any short list of files with any document and overrides, or the files
\* of a frame of two bursts with the policy document and no overrides.
InitTranslate ==
    /\ pc = "translate_start"
    /\ \/ /\ \E n \in 1..MaxFiles : cslc_file_list \in [1..n -> CslcFiles]
          /\ frame_burst_ids \in (SUBSET BurstIds) \ {{}}
          /\ algorithm_parameters \in ParameterDocuments
          /\ override_params \in FrameOverrides
       \/ /\ cslc_file_list \in FrameFileLists
          /\ frame_burst_ids = BurstIds
          /\ algorithm_parameters = ParameterRecord(PyFalse, PyFalse, MethodL1)
          /\ override_params = EmptyDict
    /\ param_dict = algorithm_parameters
    /\ merge_error = "none"
    /\ reference_datetimes \in TranslateRequests
    /\ input_dates = <<>>
    /\ is_compressed = <<>>
    /\ reference_dates = <<>>
    /\ ref_pos = 0
    /\ output_reference_idx = 0
    /\ extra_reference_date = None
    /\ subscripts = {}
    /\ translate_error = "none"
    /\ workflow = None
    /\ ProductIdle

\* Line 272: the input files sorted by date.
TranslateSort ==
    /\ pc = "translate_start"
    /\ cslc_file_list' = sort_files_by_date(cslc_file_list)
    /\ pc' = "translate_override"
    /\ UNCHANGED <<product_vars, resolver_vars, merge_vars, frame_burst_ids, translate_error,
                   workflow>>

\* Lines 281-286: the parameters loaded, overridden for the frame and
\* validated again.
TranslateOverride ==
    /\ pc = "translate_override"
    /\ LET out == _override_parameters(param_dict, override_params)
       IN /\ param_dict' = out.val
          /\ merge_error' = out.err
          /\ translate_error' = out.err
          /\ algorithm_parameters' = RecordAfterOverride(algorithm_parameters, out.val)
          /\ pc' = IF out.err = "none" THEN "translate_check" ELSE "translate_raised"
    /\ UNCHANGED <<product_vars, resolver_vars, override_params, cslc_file_list,
                   frame_burst_ids, workflow>>

\* Lines 294-301: the bursts of the data against the bursts of the frame.
TranslateFrameCheck ==
    /\ pc = "translate_check"
    /\ IF MismatchedBursts(BurstsOf(cslc_file_list), frame_burst_ids) # {}
       THEN /\ translate_error' = "ValueError"
            /\ pc' = "translate_raised"
       ELSE /\ translate_error' = translate_error
            /\ pc' = "translate_force"
    /\ UNCHANGED <<product_vars, resolver_vars, merge_vars, cslc_file_list, frame_burst_ids,
                   workflow>>

\* Lines 303-312: the options that the product line fixes.
TranslateForceOptions ==
    /\ pc = "translate_force"
    /\ param_dict' = ForcePolicy(param_dict)
    /\ pc' = "translate_reference"
    /\ UNCHANGED <<product_vars, resolver_vars, algorithm_parameters, override_params,
                   merge_error, translate_vars>>

\* Lines 314-323: the reference resolved on the template burst's files.
TranslateResolveReference ==
    /\ pc = "translate_reference"
    /\ LET cur_files == sort_files_by_date(
                            FilesOfBurst(cslc_file_list, TemplateBurst(cslc_file_list)))
           resolved == _compute_reference_dates(reference_datetimes,
                                                DatesOfFiles(cur_files),
                                                CompressedOfFiles(cur_files))
       IN /\ input_dates' = DatesOfFiles(cur_files)
          /\ is_compressed' = CompressedOfFiles(cur_files)
          /\ output_reference_idx' = resolved[1]
          /\ extra_reference_date' = resolved[2]
    /\ pc' = "translate_return"
    /\ UNCHANGED <<product_vars, reference_datetimes, reference_dates, ref_pos, subscripts,
                   merge_vars, translate_vars>>

\* Lines 326-342: the DisplacementWorkflow built and returned.
TranslateReturn ==
    /\ pc = "translate_return"
    /\ workflow' = Some([cslc_file_list |-> cslc_file_list,
                         parameters |-> param_dict,
                         output_reference_idx |-> output_reference_idx,
                         extra_reference_date |-> extra_reference_date])
    /\ pc' = "translate_done"
    /\ UNCHANGED <<product_vars, resolver_vars, merge_vars, cslc_file_list, frame_burst_ids,
                   translate_error>>

NextTranslate ==
    \/ TranslateSort
    \/ TranslateOverride
    \/ TranslateFrameCheck
    \/ TranslateForceOptions
    \/ TranslateResolveReference
    \/ TranslateReturn

SpecTranslate == InitTranslate /\ [][NextTranslate]_vars

\* The translation has ended, by a return or by an exception.
Translated == pc \in {"translate_done", "translate_raised"}

\* The input files hold a burst id that the registry does not list for the frame.
FrameMismatch == BurstsOf(cslc_file_list) \ frame_burst_ids # {}

ReturnedField(path) == UNION {At(w.parameters, path) : w \in workflow}

\* C12: every configuration returned has overviews off, velocity off and the
\* L1 method, whatever the document and the frame's overrides say.
C12_PolicyForced ==
    (pc = "translate_done")
        => /\ workflow # None
           /\ ReturnedField(<<"output_options", "add_overviews">>) = {PyFalse}
           /\ ReturnedField(<<"timeseries_options", "run_velocity">>) = {PyFalse}
           /\ ReturnedField(<<"timeseries_options", "method">>) = {MethodL1}

\* A configuration was returned although the document and the overrides
\* both ask for the opposite in all three fields.
C12_Witness ==
    /\ pc = "translate_done"
    /\ algorithm_parameters = ParameterRecord(PyTrue, PyTrue, MethodL2)
    /\ override_params = ParameterRecord(PyTrue, PyTrue, MethodL2)
    /\ ReturnedField(<<"timeseries_options", "method">>) = {MethodL1}

\* The override step of the translation failed.
OverrideFailed == pc = "translate_raised" /\ merge_error # "none"

\* C28: the record handed to _override_parameters is never changed; when the
\* merge or the validation of the merged record fails the translation
\* returns nothing; and the parameters the translation goes on with are the
\* complete, validated merge of the overrides into that record.
C28_NeverPartiallyApplied ==
    /\ [][algorithm_parameters' = algorithm_parameters]_vars
    /\ [](OverrideFailed => workflow = None /\ translate_error = merge_error)
    /\ [](pc = "translate_check"
            => /\ IsValidParameters(param_dict)
               /\ Returned(param_dict)
                     = _nested_update(algorithm_parameters, override_params))

\* The merge set add_overviews in its own dict and then failed on
\* run_velocity: the record given is as it was and nothing is returned.
C28_Witness ==
    /\ OverrideFailed
    /\ At(param_dict, <<"output_options", "add_overviews">>) = {PyTrue}
    /\ At(algorithm_parameters, <<"output_options", "add_overviews">>) = {PyFalse}
    /\ workflow = None

\* The reference resolved on the files of one burst of the input.
ResolvedOn(burst_id) ==
    LET files == sort_files_by_date(
                     SelectSeq(cslc_file_list, LAMBDA f : f.burst = burst_id))
    IN _compute_reference_dates(reference_datetimes, DatesOfFiles(files),
                                CompressedOfFiles(files))

\* The bursts of the input have the same dates with the same compressed flags.
SameTimelines ==
    \A b, c \in BurstsOf(cslc_file_list) :
        LET fb == sort_files_by_date(SelectSeq(cslc_file_list, LAMBDA f : f.burst = b))
            fc == sort_files_by_date(SelectSeq(cslc_file_list, LAMBDA f : f.burst = c))
        IN /\ DatesOfFiles(fb) = DatesOfFiles(fc)
           /\ CompressedOfFiles(fb) = CompressedOfFiles(fc)

ReferenceResolved == pc \in {"translate_return", "translate_done"}

\* C22, as claimed: the reference the translation resolves is the one any
\* burst of the input gives when taken as the representative.
C22_AnyBurstSuffices ==
    ReferenceResolved
        => \A b \in BurstsOf(cslc_file_list) :
              ResolvedOn(b) = <<output_reference_idx, extra_reference_date>>

\* C22, amended: when the bursts of the input have the same dates with the
\* same compressed flags, the reference resolved is the one any burst gives,
\* and so the same whichever burst comes first in the input.
C22_SameTimelinesAnyBurstSuffices ==
    (ReferenceResolved /\ SameTimelines)
        => \A b \in BurstsOf(cslc_file_list) :
              ResolvedOn(b) = <<output_reference_idx, extra_reference_date>>

\* A frame of two bursts with the same two dates, handed in with the second
\* burst first, and a changeover to the compressed second acquisition.
C22_Witness ==
    /\ pc = "translate_done"
    /\ SameTimelines
    /\ BurstsOf(cslc_file_list) = {1, 2}
    /\ Len(cslc_file_list) = 4
    /\ workflow # None
    /\ \A w \in workflow : w.cslc_file_list[1].burst = 2
    /\ output_reference_idx = 1

-----------------------------------------------------------------------------
(* create_output_product: the recommended mask.                            *)

\* Rasters are drawn as one row of pixels: rows of up to MaxPixels pixels
\* of any values, and rows of up to MaxShape pixels of one value.
MaxPixels == 2
MaxShape == 3

\* temporal_coherence < 0.6 and similarity < 0.5, in hundredths.
TemporalCoherenceThreshold == 60
SimilarityThreshold == 50

\* The pixel values drawn: each side of the thresholds, label zero and a
\* label, water and land.
CoherenceLevels == {TemporalCoherenceThreshold - 1, TemporalCoherenceThreshold}
SimilarityLevels == {SimilarityThreshold - 1, SimilarityThreshold}
ConncompLabels == {0, 1}
WaterLevels == {0, 1}

Rasters(n, levels) == [1..n -> levels]
UniformRasters(levels) == {[i \in 1..n |-> v] : n \in 1..MaxShape, v \in levels}

\* numpy broadcasting of two one-row arrays: equal lengths, or one of them
\* a single pixel that is repeated.
Broadcastable(a, b) == Len(a) = Len(b) \/ Len(a) = 1 \/ Len(b) = 1
BroadcastLen(a, b) == IF Len(a) = 1 THEN Len(b) ELSE Len(a)
Pixel(a, i) == IF Len(a) = 1 THEN a[1] ELSE a[i]

\* a & b and a | b on boolean arrays.
ArrayAnd(a, b) == [i \in 1..BroadcastLen(a, b) |-> Pixel(a, i) /\ Pixel(b, i)]
ArrayOr(a, b) == [i \in 1..BroadcastLen(a, b) |-> Pixel(a, i) \/ Pixel(b, i)]

\* Lines 247-252: the water pixels, none when no water mask is given.
IsWater(water, coherence) ==
    IF water # None
    THEN LET data == CHOOSE w \in water : TRUE
         IN [i \in 1..Len(data) |-> data[i] = 0]
    ELSE [i \in 1..Len(coherence) |-> FALSE]

\* Lines 258-260.
IsZeroConncomp(labels) == [i \in 1..Len(labels) |-> labels[i] = 0]
BadTemporalCoherence(coherence) ==
    [i \in 1..Len(coherence) |-> coherence[i] < TemporalCoherenceThreshold]
BadSimilarity(sim) == [i \in 1..Len(sim) |-> sim[i] < SimilarityThreshold]

\* A slip: either weak signal alone marks the pixel.
IsLowQuality_Either(bad_temporal_coherence, bad_similarity) ==
    ArrayOr(bad_temporal_coherence, bad_similarity)

\* Line 261: is_low_quality = bad_temporal_coherence & bad_similarity
IsLowQuality(bad_temporal_coherence, bad_similarity) ==
    ArrayAnd(bad_temporal_coherence, bad_similarity)

\* Lines 258-264: the bad pixels, or the ValueError numpy raises on operands
\* that cannot be broadcast together.
BadPixelMask(coherence, labels, sim, water) ==
    LET is_water == IsWater(water, coherence)
        is_zero_conncomp == IsZeroConncomp(labels)
        bad_temporal_coherence == BadTemporalCoherence(coherence)
        bad_similarity == BadSimilarity(sim)
    IN IF ~Broadcastable(bad_temporal_coherence, bad_similarity)
       THEN Raised("ValueError", <<>>)
       ELSE IF ~Broadcastable(is_water, is_zero_conncomp)
       THEN Raised("ValueError", <<>>)
       ELSE LET is_low_quality == IsLowQuality(bad_temporal_coherence, bad_similarity)
                water_or_zero == ArrayOr(is_water, is_zero_conncomp)
            IN IF ~Broadcastable(water_or_zero, is_low_quality)
               THEN Raised("ValueError", <<>>)
               ELSE Returned(ArrayOr(water_or_zero, is_low_quality))

\* Line 267: recommended_mask = np.logical_not(bad_pixel_mask)
LogicalNot(a) == [i \in 1..Len(a) |-> ~a[i]]

\* The rasters on one grid with any pixel values, or of shapes of their own.
\* A pixel of the unwrapped raster as io.load_gdal(masked=True) hands it
\* over: masked, or a finite value that is zero or not.
UnwrappedLevels == {"masked", "zero", "nonzero"}

\* Line 220: np.ma.filled(unw_arr_ma, 0)
Filled(arr_ma) == [i \in 1..Len(arr_ma) |-> IF arr_ma[i] = "masked" THEN "zero"
                                            ELSE arr_ma[i]]

\* Line 221: mask = unw_arr == 0
IsZero(arr) == [i \in 1..Len(arr) |-> arr[i] = "zero"]

\* Lines 223-230: the phase scaled by phase2disp (a non-zero factor), or
\* taken as it is when the units are meters: zero stays zero, the rest not.
Displacement(arr) == [i \in 1..Len(arr) |-> IF arr[i] = "zero" THEN "zero"
                                             ELSE "nonzero"]

\* Lines 270-275: the external long wavelength filter; what it returns at a
\* pixel is a number of its own.
filter_long_wavelength(arr) == [i \in 1..Len(arr) |-> "filtered"]

\* Lines 280 and 282: arr[where] = np.nan
NullWhere(arr, where) == [i \in 1..Len(arr) |-> IF where[i] THEN "nan" ELSE arr[i]]

\* A slip: the displacement is nulled at the bad pixels as well.
PrimaryNulled_AtBadToo(mask, bad) == ArrayOr(mask, bad)

\* Line 280: disp_arr[mask] = np.nan, whatever the bad pixels are.
PrimaryNulled(mask, bad) == mask

InitMask ==
    /\ pc = "mask_start"
    /\ \/ \E n \in 1..MaxPixels :
            /\ temporal_coherence \in Rasters(n, CoherenceLevels)
            /\ conncomps \in Rasters(n, ConncompLabels)
            /\ similarity \in Rasters(n, SimilarityLevels)
            /\ water_mask_data \in {None} \cup {Some(w) : w \in Rasters(n, WaterLevels)}
       \/ /\ temporal_coherence \in UniformRasters(CoherenceLevels)
          /\ conncomps \in UniformRasters(ConncompLabels)
          /\ similarity \in UniformRasters(SimilarityLevels)
          /\ water_mask_data \in {None} \cup {Some(w) : w \in UniformRasters(WaterLevels)}
    /\ disp_shape \in 1..MaxShape
    /\ bad_pixel_mask = None
    /\ recommended_mask = None
    /\ written_mask = None
    /\ mask_error = "none"
    /\ unw_arr_ma = <<>>
    /\ disp_arr = <<>>
    /\ filtered_disp_arr = <<>>
    /\ RunConfigIdle
    /\ AssemblyIdle
    /\ PoolIdle
    /\ TaskIdle

\* Lines 242-267: the bad pixels and the recommended mask.
ComputeMask ==
    /\ pc = "mask_start"
    /\ LET out == BadPixelMask(temporal_coherence, conncomps, similarity,
                               water_mask_data)
       IN IF out.err # "none"
          THEN /\ mask_error' = out.err
               /\ pc' = "mask_raised"
               /\ UNCHANGED <<bad_pixel_mask, recommended_mask>>
          ELSE /\ bad_pixel_mask' = Some(out.val)
               /\ recommended_mask' = Some(LogicalNot(out.val))
               /\ pc' = "mask_computed"
               /\ UNCHANGED mask_error
    /\ UNCHANGED <<outside_mask, temporal_coherence, conncomps, similarity,
                   water_mask_data, disp_shape, written_mask, unw_arr_ma,
                   disp_arr, filtered_disp_arr>>

\* Lines 219-222 and 270-282: the unwrapped raster loaded, the displacement
\* filtered with the bad pixels left out, and both layers nulled; a boolean
\* index of another shape raises an IndexError.
FilterAndNull ==
    /\ pc = "mask_computed"
    /\ IF \E bad \in bad_pixel_mask : Len(bad) # disp_shape
       THEN /\ mask_error' = "IndexError"
            /\ pc' = "mask_raised"
            /\ UNCHANGED <<unw_arr_ma, disp_arr, filtered_disp_arr>>
       ELSE /\ \E unw \in Rasters(disp_shape, UnwrappedLevels) :
                  \E bad \in bad_pixel_mask :
                     /\ unw_arr_ma' = unw
                     /\ disp_arr' = NullWhere(Displacement(Filled(unw)),
                                              PrimaryNulled(IsZero(Filled(unw)), bad))
                     /\ filtered_disp_arr' =
                           NullWhere(filter_long_wavelength(Displacement(Filled(unw))),
                                     bad)
            /\ mask_error' = mask_error
            /\ pc' = "mask_filtered"
    /\ UNCHANGED <<outside_mask, temporal_coherence, conncomps, similarity,
                   water_mask_data, disp_shape, bad_pixel_mask, recommended_mask,
                   written_mask>>

\* Lines 286, 328-337: the recommended mask written into the artifact.
WriteRecommendedMask ==
    /\ pc = "mask_filtered"
    /\ written_mask' = recommended_mask
    /\ pc' = "mask_written"
    /\ UNCHANGED <<outside_mask, temporal_coherence, conncomps, similarity,
                   water_mask_data, disp_shape, bad_pixel_mask, recommended_mask,
                   mask_error, unw_arr_ma, disp_arr, filtered_disp_arr>>

NextMask == ComputeMask \/ FilterAndNull \/ WriteRecommendedMask

SpecMask == InitMask /\ [][NextMask]_vars

\* The four rasters lie on one grid.
Aligned ==
    /\ Len(temporal_coherence) = Len(conncomps)
    /\ Len(temporal_coherence) = Len(similarity)
    /\ \A w \in water_mask_data : Len(w) = Len(temporal_coherence)

\* The three criteria of a pixel, read off the rasters.
WaterAt(i) == \E w \in water_mask_data : w[i] = 0
UnconnectedAt(i) == conncomps[i] = 0
LowCoherenceAt(i) == temporal_coherence[i] < TemporalCoherenceThreshold
LowSimilarityAt(i) == similarity[i] < SimilarityThreshold
BadAt(i) == WaterAt(i) \/ UnconnectedAt(i) \/ (LowCoherenceAt(i) /\ LowSimilarityAt(i))

\* C13: on rasters of one grid every pixel is bad exactly when it is water,
\* or has no connected component, or has low coherence and low similarity
\* together; the recommended mask is the negation; low coherence alone and
\* low similarity alone leave the pixel recommended.
C13_MaskTruthTable ==
    (Aligned /\ pc \in {"mask_computed", "mask_filtered", "mask_written"})
        => /\ mask_error = "none"
           /\ \A bad \in bad_pixel_mask : \A good \in recommended_mask :
                /\ Len(bad) = Len(temporal_coherence)
                /\ Len(good) = Len(temporal_coherence)
                /\ \A i \in 1..Len(temporal_coherence) :
                     /\ bad[i] = BadAt(i)
                     /\ good[i] = ~BadAt(i)
                     /\ (~WaterAt(i) /\ ~UnconnectedAt(i)
                           /\ ~(LowCoherenceAt(i) /\ LowSimilarityAt(i))) => good[i]
           /\ bad_pixel_mask # None
           /\ recommended_mask # None

\* A written mask over two land pixels with a component: the first has low
\* coherence alone and is recommended, the second has both low and is not.
C13_Witness ==
    /\ pc = "mask_written"
    /\ Aligned
    /\ Len(temporal_coherence) = 2
    /\ ~WaterAt(1) /\ ~UnconnectedAt(1) /\ LowCoherenceAt(1) /\ ~LowSimilarityAt(1)
    /\ ~WaterAt(2) /\ ~UnconnectedAt(2) /\ LowCoherenceAt(2) /\ LowSimilarityAt(2)
    /\ written_mask = Some(<<TRUE, FALSE>>)

\* C14, as claimed: a mask is never produced from rasters that do not all
\* have the same shape.
C14_MisalignedNeverMasked == ~Aligned => written_mask = None

\* The two displacement layers have been computed.
LayersNulled == pc \in {"mask_filtered", "mask_written"}

\* C23: the short wavelength layer is null at every bad pixel; the primary
\* displacement layer is null exactly where the unwrapped input is masked or
\* zero, so a bad pixel with a non-zero unwrapped value keeps its value there.
C23_StrictSecondaryLenientPrimary ==
    LayersNulled
        => \A bad \in bad_pixel_mask :
              \A i \in 1..disp_shape :
                 /\ bad[i] => filtered_disp_arr[i] = "nan"
                 /\ disp_arr[i] = "nan" <=> unw_arr_ma[i] \in {"masked", "zero"}
                 /\ (bad[i] /\ unw_arr_ma[i] = "nonzero") => disp_arr[i] # "nan"

\* A bad pixel with a non-zero unwrapped value next to a good pixel whose
\* unwrapped value is masked: the first is null in the short wavelength layer
\* only, the second in the primary layer only.
C23_Witness ==
    /\ LayersNulled
    /\ disp_shape = 2
    /\ bad_pixel_mask = Some(<<TRUE, FALSE>>)
    /\ unw_arr_ma = <<"nonzero", "masked">>
    /\ disp_arr = <<"nonzero", "nan">>
    /\ filtered_disp_arr = <<"nan", "filtered">>

-----------------------------------------------------------------------------
(* create_output_product: the assembly of the artifact.                    *)

\* Most acquisitions of a source list drawn.
MaxCslc == 2

\* baseline_arr = np.zeros((100, 100)): the size of the fallback grid.
FallbackSize == 100

\* A raster held in memory or written as a layer: what fills it, and its size.
Layer(content, size) == [content |-> content, size |-> size]

\* The source lists drawn: the files 1..n, for n from none to MaxCslc.
CslcLists == {[i \in 1..n |-> i] : n \in 0..MaxCslc}

\* The corrections a caller may hand in.
CallerKeys == {"ionosphere", "solid_earth", "baseline"}
CallerCorrections(size) ==
    UNION {[keys -> {Layer("caller", size)}] : keys \in SUBSET CallerKeys}

\* A slip: only the reference list is looked at.
MissingInput_ReferenceOnly(reference, secondary) ==
    IF Len(reference) = 0 THEN "ValueError: Missing input reference cslc files"
    ELSE "none"

\* Lines 158-161: the ValueError raised on an empty source list, or "none".
MissingInput(reference, secondary) ==
    IF Len(reference) = 0 THEN "ValueError: Missing input reference cslc files"
    ELSE IF Len(secondary) = 0 THEN "ValueError: Missing input secondary cslc files"
    ELSE "none"

\* Lines 163-172: the first and the last file by name; unpacking an empty
\* list into start, *_, end raises a ValueError.
_get_start_end_cslcs(files) ==
    IF Len(files) = 1 THEN Returned(<<files[1], files[1]>>)
    ELSE IF Len(files) = 0
    THEN Raised("ValueError: not enough values to unpack", <<>>)
    ELSE LET names == {files[i] : i \in 1..Len(files)}
         IN Returned(<<CHOOSE a \in names : \A b \in names : a <= b,
                       CHOOSE a \in names : \A b \in names : a >= b>>)

\* Line 207: baseline_arr = np.zeros((100, 100))
FallbackBaseline == Layer("zeros", FallbackSize)

\* _interpolate_data(baseline_arr, shape=shape): the grid resampled to the
\* product's shape; zeros stay zeros.
_interpolate_data(arr, size) == Layer(arr.content, size)

\* corrections[key] = value
SetCorrection(dct, key, value) ==
    [k \in DOMAIN dct \cup {key} |-> IF k = key THEN value ELSE dct[k]]

\* corrections.get(key, empty_arr)
GetCorrection(dct, key, empty_arr) ==
    IF key \in DOMAIN dct THEN dct[key] ELSE empty_arr

\* A slip: one line-of-sight file is taken to be enough.
HasLineOfSight_Either(east, north) == east # None \/ north # None

\* Line 369: if los_east_file is not None and los_north_file is not None
HasLineOfSight(east, north) == east # None /\ north # None

\* Lines 299-367: the ten layers written at the root of the artifact.
RootLayerNames ==
    {"displacement", "short_wavelength_displacement", "recommended_mask",
     "conncomp", "temp_coh", "ifg_corr", "ps_mask", "shp_count", "water_mask",
     "similarity"}

\* Lines 449-523: the layers _create_corrections_group writes.
CorrectionLayers(dct, size) ==
    LET empty_arr == Layer("zeros", size)
    IN [name \in {"ionospheric_delay", "solid_earth_tide", "perpendicular_baseline",
                  "reference_point"} |->
          CASE name = "ionospheric_delay" -> GetCorrection(dct, "ionosphere", empty_arr)
            [] name = "solid_earth_tide" -> GetCorrection(dct, "solid_earth", empty_arr)
            [] name = "perpendicular_baseline" -> GetCorrection(dct, "baseline", empty_arr)
            [] OTHER -> Layer("scalar", 0)]

\* Lines 339-347: the layers loaded from a file each, by the layer's name.
DataLayerNames ==
    {"conncomp", "temp_coh", "ifg_corr", "ps_mask", "shp_count", "water_mask",
     "similarity"}

\* The rasters the recommended mask needs (lines 243, 254, 255).
MaskLayerNames == {"temp_coh", "conncomp", "similarity"}

\* How many of the files are not there, at most.
MaxMissing == 1

\* What io.load_gdal raises on a file that is not there.
LoadError == "RuntimeError: No such file or directory"

\* The files as create_output_product finds them: each exists or is
\* missing; water_mask_filename alone may be None.
DataFileStates ==
    {f \in [DataLayerNames -> {"exists", "missing", "none"}] :
        /\ \A name \in DataLayerNames \ {"water_mask"} : f[name] # "none"
        /\ Cardinality({name \in DataLayerNames : f[name] # "exists"}) <= MaxMissing}

\* Lines 243-255: a raster the mask needs has no file, or the water mask is
\* named without one.
MaskInputMissing(files) ==
    \/ \E name \in MaskLayerNames : files[name] # "exists"
    \/ files["water_mask"] = "missing"

\* A root layer: where its values come from, its shape and its dtype.
RootLayer(content, size) == [content |-> content, size |-> size, dtype |-> "info.dtype"]

\* Lines 299-367: the layers written at the root; lines 354-358: a layer of
\* data_files is loaded from its file when the name is given and the file
\* exists, and is info.fillvalue on the product's shape otherwise.
RootLayers(files, size) ==
    [name \in RootLayerNames |->
        IF name \in DataLayerNames
        THEN IF files[name] = "exists"
             THEN RootLayer("load_gdal", size)
             ELSE RootLayer("fillvalue", size)
        ELSE RootLayer("computed", size)]

\* The places of create_output_product where output_name is opened next:
\* line 286, and the calls of lines 388, 399, 414 and 419 (three copies).
WriterStages ==
    {"asm_write", "asm_corrections", "asm_identification", "asm_metadata",
     "asm_copy_reference", "asm_copy_secondary", "asm_copy_common"}

\* Line 286 opens with "w"; lines 442, 541, 983 and 1406 open with "a".
OpenMode(stage) == IF stage = "asm_write" THEN "w" ELSE "a"

\* Inside the with block of a stage, before and after its writes.
OpenedStage(stage) ==
    CASE stage = "asm_write" -> "asm_write_opened"
      [] stage = "asm_corrections" -> "asm_corrections_opened"
      [] stage = "asm_identification" -> "asm_identification_opened"
      [] stage = "asm_metadata" -> "asm_metadata_opened"
      [] stage = "asm_copy_reference" -> "asm_copy_reference_opened"
      [] stage = "asm_copy_secondary" -> "asm_copy_secondary_opened"
      [] OTHER -> "asm_copy_common_opened"

WrittenStage(opened_stage) ==
    CASE opened_stage = "asm_copy_reference_opened" -> "asm_copy_reference_written"
      [] opened_stage = "asm_copy_secondary_opened" -> "asm_copy_secondary_written"
      [] OTHER -> "asm_copy_common_written"

\* Where create_output_product goes on once a with block has ended.
AfterClose ==
    [asm_write_written |-> "asm_tide",
     asm_corrections_written |-> "asm_identification",
     asm_identification_written |-> "asm_metadata",
     asm_metadata_written |-> "asm_copy_reference",
     asm_copy_reference_written |-> "asm_copy_secondary",
     asm_copy_secondary_written |-> "asm_copy_common",
     asm_copy_common_written |-> "asm_done"]

\* Lines 1474-1506: what each call of _copy_hdf5_dsets copies.
CopiedDatasets ==
    [asm_copy_reference_opened |-> "reference_orbit",
     asm_copy_secondary_opened |-> "secondary_orbit",
     asm_copy_common_opened |-> "common_dsets"]

\* A slip: the handle stays open when the with block ends.
CloseHandle_Leak(open_handles) == open_handles

\* The with statement closes the handle it opened, the last one.
CloseHandle(open_handles) == SubSeq(open_handles, 1, Len(open_handles) - 1)

InitAssembly ==
    /\ pc = "asm_start"
    /\ reference_cslc_files \in CslcLists
    /\ secondary_cslc_files \in CslcLists
    /\ los_east_file \in {None, Some("los_east")}
    /\ los_north_file \in {None, Some("los_north")}
    /\ shape \in 1..MaxPixels
    /\ corrections \in CallerCorrections(shape)
    /\ baseline_raised = FALSE
    /\ footprint_raised = FALSE
    /\ tide_raised = FALSE
    /\ footprint_wkt = None
    /\ root_layers = None
    /\ corrections_group = None
    /\ identification_group = None
    /\ metadata_group = None
    /\ assembly_error = "none"
    /\ data_files = EmptyItems
    /\ handles = <<>>
    /\ opened = <<>>
    /\ RunConfigIdle
    /\ MaskIdle
    /\ PoolIdle
    /\ TaskIdle

\* Lines 158-161: both source lists must hold a file.
ValidateInputs ==
    /\ pc = "asm_start"
    /\ assembly_error' = MissingInput(reference_cslc_files, secondary_cslc_files)
    /\ pc' = IF assembly_error' = "none" THEN "asm_validated" ELSE "asm_raised"
    /\ UNCHANGED <<outside_assembly, data_files, handles, opened, reference_cslc_files, secondary_cslc_files,
                   los_east_file, los_north_file, corrections, shape,
                   baseline_raised, footprint_raised, tide_raised, footprint_wkt,
                   root_layers, corrections_group, identification_group,
                   metadata_group>>

\* Lines 174-185: the start and end files and times of both lists.
GetStartEnd ==
    /\ pc = "asm_validated"
    /\ LET ref == _get_start_end_cslcs(reference_cslc_files)
           sec == _get_start_end_cslcs(secondary_cslc_files)
       IN /\ assembly_error' = IF ref.err # "none" THEN ref.err ELSE sec.err
          /\ pc' = IF assembly_error' = "none" THEN "asm_baseline" ELSE "asm_raised"
    /\ UNCHANGED <<outside_assembly, data_files, handles, opened, reference_cslc_files, secondary_cslc_files,
                   los_east_file, los_north_file, corrections, shape,
                   baseline_raised, footprint_raised, tide_raised, footprint_wkt,
                   root_layers, corrections_group, identification_group,
                   metadata_group>>

\* Lines 187-208: the perpendicular baseline; an exception of
\* compute_baselines is caught and the zero grid taken instead.
ComputeBaseline ==
    /\ pc = "asm_baseline"
    /\ \E raises \in BOOLEAN :
          LET baseline_arr == IF raises THEN FallbackBaseline
                              ELSE Layer("computed", FallbackSize)
          IN /\ baseline_raised' = raises
             /\ corrections' = SetCorrection(corrections, "baseline",
                                             _interpolate_data(baseline_arr, shape))
    /\ pc' = "asm_footprint"
    /\ UNCHANGED <<outside_assembly, data_files, handles, opened, reference_cslc_files, secondary_cslc_files,
                   los_east_file, los_north_file, shape, footprint_raised,
                   tide_raised, footprint_wkt, root_layers, corrections_group,
                   identification_group, metadata_group, assembly_error>>

\* Lines 210-215: the footprint; an exception of extract_footprint is caught
\* and the empty string taken instead.
ExtractFootprint ==
    /\ pc = "asm_footprint"
    /\ \E raises \in BOOLEAN :
          /\ footprint_raised' = raises
          /\ footprint_wkt' = IF raises THEN Some("") ELSE Some("POLYGON")
    /\ pc' = "asm_mask"
    /\ UNCHANGED <<outside_assembly, data_files, handles, opened,
                   reference_cslc_files, secondary_cslc_files,
                   los_east_file, los_north_file, corrections, shape,
                   baseline_raised, tide_raised, root_layers, corrections_group,
                   identification_group, metadata_group, assembly_error>>

\* Lines 243-255: the rasters the recommended mask is computed from are
\* loaded, whatever their files are; io.load_gdal raises on a file that does
\* not exist.  The water mask is loaded when its name is given.
LoadQualityRasters ==
    /\ pc = "asm_mask"
    /\ \E files \in DataFileStates :
          /\ data_files' = files
          /\ assembly_error' = IF MaskInputMissing(files) THEN LoadError ELSE "none"
          /\ pc' = IF MaskInputMissing(files) THEN "asm_raised" ELSE "asm_write"
    /\ UNCHANGED <<outside_assembly, handles, opened, reference_cslc_files,
                   secondary_cslc_files, los_east_file, los_north_file,
                   corrections, shape, baseline_raised, footprint_raised,
                   tide_raised, footprint_wkt, root_layers, corrections_group,
                   identification_group, metadata_group>>

\* Lines 286, 442, 541, 983 and 1406: a with statement opens output_name.
\* Mode "w" creates the file, or empties the one there.
OpenOutput ==
    /\ pc \in WriterStages
    /\ handles' = Append(handles, OpenMode(pc))
    /\ opened' = Append(opened, OpenMode(pc))
    /\ IF OpenMode(pc) = "w"
       THEN /\ root_layers' = Some(EmptyItems)
            /\ corrections_group' = None
            /\ identification_group' = None
            /\ metadata_group' = None
       ELSE UNCHANGED <<root_layers, corrections_group, identification_group,
                        metadata_group>>
    /\ pc' = OpenedStage(pc)
    /\ UNCHANGED <<outside_assembly, data_files, reference_cslc_files,
                   secondary_cslc_files, los_east_file, los_north_file,
                   corrections, shape, baseline_raised, footprint_raised,
                   tide_raised, footprint_wkt, assembly_error>>

\* Lines 287-367: the root layers written into the open file.
WriteRootLayers ==
    /\ pc = "asm_write_opened"
    /\ root_layers' = Some(RootLayers(data_files, shape))
    /\ pc' = "asm_write_written"
    /\ UNCHANGED <<outside_assembly, data_files, handles, opened,
                   reference_cslc_files, secondary_cslc_files,
                   los_east_file, los_north_file, corrections, shape,
                   baseline_raised, footprint_raised, tide_raised, footprint_wkt,
                   corrections_group, identification_group, metadata_group,
                   assembly_error>>

\* The end of a with block: the handle it opened is closed.
CloseOutput ==
    /\ pc \in DOMAIN AfterClose
    /\ handles' = CloseHandle(handles)
    /\ pc' = AfterClose[pc]
    /\ UNCHANGED <<outside_assembly, data_files, opened, reference_cslc_files,
                   secondary_cslc_files, los_east_file, los_north_file,
                   corrections, shape, baseline_raised, footprint_raised,
                   tide_raised, footprint_wkt, root_layers, corrections_group,
                   identification_group, metadata_group, assembly_error>>

\* Lines 369-386: the solid earth tide, computed when both line-of-sight
\* files are given; no handler is around it, so its exception leaves
\* create_output_product.
ComputeSolidEarthTide ==
    /\ pc = "asm_tide"
    /\ IF HasLineOfSight(los_east_file, los_north_file)
       THEN \E raises \in BOOLEAN :
               /\ tide_raised' = raises
               /\ IF raises
                  THEN /\ assembly_error' = "Exception: solid earth tide"
                       /\ pc' = "asm_raised"
                       /\ UNCHANGED corrections
                  ELSE /\ corrections' = SetCorrection(corrections, "solid_earth",
                                                       Layer("computed", shape))
                       /\ pc' = "asm_corrections"
                       /\ UNCHANGED assembly_error
       ELSE /\ pc' = "asm_corrections"
            /\ UNCHANGED <<tide_raised, corrections, assembly_error>>
    /\ UNCHANGED <<outside_assembly, data_files, handles, opened,
                   reference_cslc_files, secondary_cslc_files,
                   los_east_file, los_north_file, shape, baseline_raised,
                   footprint_raised, footprint_wkt, root_layers, corrections_group,
                   identification_group, metadata_group>>

\* Lines 388-396 and 443-523: _create_corrections_group, in its open file.
CreateCorrectionsGroup ==
    /\ pc = "asm_corrections_opened"
    /\ corrections_group' = Some(CorrectionLayers(corrections, shape))
    /\ pc' = "asm_corrections_written"
    /\ UNCHANGED <<outside_assembly, data_files, handles, opened,
                   reference_cslc_files, secondary_cslc_files,
                   los_east_file, los_north_file, corrections, shape,
                   baseline_raised, footprint_raised, tide_raised, footprint_wkt,
                   root_layers, identification_group, metadata_group,
                   assembly_error>>

\* Lines 398-412 and 542-: _create_identification_group, with the footprint.
CreateIdentificationGroup ==
    /\ pc = "asm_identification_opened"
    /\ identification_group' = Some([bounding_polygon |-> footprint_wkt])
    /\ pc' = "asm_identification_written"
    /\ UNCHANGED <<outside_assembly, data_files, handles, opened,
                   reference_cslc_files, secondary_cslc_files,
                   los_east_file, los_north_file, corrections, shape,
                   baseline_raised, footprint_raised, tide_raised, footprint_wkt,
                   root_layers, corrections_group, metadata_group, assembly_error>>

\* Lines 414-418 and 984-: _create_metadata_group.
CreateMetadataGroup ==
    /\ pc = "asm_metadata_opened"
    /\ metadata_group' = Some({"pge_runconfig"})
    /\ pc' = "asm_metadata_written"
    /\ UNCHANGED <<outside_assembly, data_files, handles, opened,
                   reference_cslc_files, secondary_cslc_files,
                   los_east_file, los_north_file, corrections, shape,
                   baseline_raised, footprint_raised, tide_raised, footprint_wkt,
                   root_layers, corrections_group, identification_group,
                   assembly_error>>

\* Lines 419-423 and 1406-1426: one call of _copy_hdf5_dsets copies datasets
\* of a source file into the open output.
CopyDatasets ==
    /\ pc \in DOMAIN CopiedDatasets
    /\ metadata_group' = {g \cup {CopiedDatasets[pc]} : g \in metadata_group}
    /\ pc' = WrittenStage(pc)
    /\ UNCHANGED <<outside_assembly, data_files, handles, opened,
                   reference_cslc_files, secondary_cslc_files,
                   los_east_file, los_north_file, corrections, shape,
                   baseline_raised, footprint_raised, tide_raised, footprint_wkt,
                   root_layers, corrections_group, identification_group,
                   assembly_error>>

NextAssembly ==
    \/ ValidateInputs
    \/ GetStartEnd
    \/ ComputeBaseline
    \/ ExtractFootprint
    \/ LoadQualityRasters
    \/ OpenOutput
    \/ WriteRootLayers
    \/ CloseOutput
    \/ ComputeSolidEarthTide
    \/ CreateCorrectionsGroup
    \/ CreateIdentificationGroup
    \/ CreateMetadataGroup
    \/ CopyDatasets

SpecAssembly == InitAssembly /\ [][NextAssembly]_vars

\* create_output_product has ended, by a return or by an exception.
Assembled == pc \in {"asm_done", "asm_raised"}

\* The artifact holds every root layer.
CompleteLayers ==
    /\ root_layers # None
    /\ \A layers \in root_layers : DOMAIN layers = RootLayerNames

\* The artifact holds every root layer and the three groups.
CompleteArtifact ==
    /\ CompleteLayers
    /\ corrections_group # None
    /\ identification_group # None
    /\ metadata_group # None

\* The layer of that name in the corrections group of the artifact, as a set:
\* empty when the group or the layer is not there.
WrittenCorrection(name) ==
    {g[name] : g \in {h \in corrections_group : name \in DOMAIN h}}

\* A raster the mask needs had no file: the assembly ended at its load.
QualityRasterMissing == assembly_error = LoadError

\* C15, as claimed: no exception of the baseline, the footprint or the solid
\* earth tide computation aborts the assembly (the quality rasters being
\* there to load).
C15_AuxiliaryFailureNeverAborts ==
    ((baseline_raised \/ footprint_raised \/ tide_raised) /\ ~QualityRasterMissing)
        => pc # "asm_raised"

\* C16, as claimed: when compute_baselines raises, the assembly still ends
\* with every root layer and the corrections, identification and metadata
\* groups written, and the perpendicular baseline layer is the zero grid
\* (the quality rasters being there to load).
C16_BaselineFailureCompletes ==
    (baseline_raised /\ Assembled /\ ~QualityRasterMissing)
        => /\ pc = "asm_done"
           /\ CompleteArtifact
           /\ WrittenCorrection("perpendicular_baseline") = {Layer("zeros", shape)}

\* A line-of-sight file is missing.
LineOfSightAbsent == los_east_file = None \/ los_north_file = None

\* C17, as claimed: without both line-of-sight files the corrections group
\* of the written artifact holds no solid earth tide layer.
C17_TideLayerOmitted ==
    (LineOfSightAbsent /\ corrections_group # None)
        => WrittenCorrection("solid_earth_tide") = {}

\* C17, amended: without both line-of-sight files no tide is computed and the
\* assembly ends; the solid earth tide layer is written all the same, filled
\* with zeros on the product's shape, or with the layer the caller handed in
\* under "solid_earth".
C17_TideLayerZeroFilled ==
    LineOfSightAbsent
        => /\ ~tide_raised
           /\ pc # "asm_raised" \/ root_layers = None
           /\ corrections_group # None
                 => WrittenCorrection("solid_earth_tide")
                       = {GetCorrection(corrections, "solid_earth",
                                        Layer("zeros", shape))}
           /\ (corrections_group # None /\ "solid_earth" \notin DOMAIN corrections)
                 => WrittenCorrection("solid_earth_tide") = {Layer("zeros", shape)}

\* The east file alone was given, the caller handed in no tide: the artifact
\* is complete and its solid earth tide layer is zeros.
C17_Witness ==
    /\ pc = "asm_done"
    /\ los_east_file # None
    /\ los_north_file = None
    /\ "solid_earth" \notin DOMAIN corrections
    /\ CompleteArtifact
    /\ WrittenCorrection("solid_earth_tide") = {Layer("zeros", shape)}

\* C18: with an empty reference list or an empty secondary list the assembly
\* fails with the ValueError of the input check, and no artifact exists then
\* or at any time before.
C18_EmptySourceListFails ==
    (Len(reference_cslc_files) = 0 \/ Len(secondary_cslc_files) = 0)
        => /\ root_layers = None
           /\ corrections_group = None
           /\ identification_group = None
           /\ metadata_group = None
           /\ pc \in {"asm_start", "asm_raised"}
           /\ pc = "asm_raised"
                 => assembly_error
                      \in {"ValueError: Missing input reference cslc files",
                           "ValueError: Missing input secondary cslc files"}

\* The reference list holds files and the secondary list none: the input
\* check raised and no artifact exists.
C18_Witness ==
    /\ pc = "asm_raised"
    /\ Len(reference_cslc_files) > 0
    /\ Len(secondary_cslc_files) = 0
    /\ assembly_error = "ValueError: Missing input secondary cslc files"
    /\ root_layers = None

\* A missing file of one of the loaded layers was met: data_files is known
\* from line 243 on.
SourceAbsent(name) == data_files # EmptyItems /\ data_files[name] # "exists"

\* C24, as claimed: for each quality or diagnostic layer whose source file is
\* not given or does not exist, the assembly does not fail on it; the layer
\* is written on the product's shape, filled with its fill value in its
\* declared dtype, and every other root layer is written too.
C24_MissingSourceFilled ==
    \A name \in DataLayerNames :
        SourceAbsent(name)
            => /\ assembly_error # LoadError
               /\ pc \in {"asm_write_written", "asm_done"}
                     => /\ CompleteLayers
                        /\ \A layers \in root_layers :
                              layers[name] = RootLayer("fillvalue", shape)

\* C25: at most one handle is open on output_name at any moment and none
\* once create_output_product has ended; the first open uses mode "w" and
\* leaves an empty file, every later open uses mode "a" and leaves the file
\* as it was; a handle is opened only when none is open.
C25_OneHandleAtATime ==
    /\ [](/\ Len(handles) <= 1
          /\ \A i \in 1..Len(opened) : opened[i] = IF i = 1 THEN "w" ELSE "a"
          /\ Assembled => handles = <<>>
          /\ opened = <<>> <=> root_layers = None)
    /\ [][opened' # opened
             => /\ handles = <<>>
                /\ Len(opened') = Len(opened) + 1
                /\ IF opened = <<>>
                   THEN /\ root_layers' = Some(EmptyItems)
                        /\ corrections_group' = None
                        /\ identification_group' = None
                        /\ metadata_group' = None
                   ELSE UNCHANGED <<root_layers, corrections_group,
                                    identification_group, metadata_group>>]_vars

\* The assembly ended after its seven opens of output_name, all closed, with
\* the artifact complete.
C25_Witness ==
    /\ pc = "asm_done"
    /\ opened = <<"w", "a", "a", "a", "a", "a", "a">>
    /\ handles = <<>>
    /\ CompleteArtifact
    /\ metadata_group = Some({"pge_runconfig", "reference_orbit", "secondary_orbit",
                              "common_dsets"})

-----------------------------------------------------------------------------
(* create_compressed_products: the producer of compressed acquisitions.    *)

\* Most tasks of a batch, and the largest worker count drawn.
MaxTasks == 3
MaxWorkers == 2

\* A compressed file of comp_slc_dict under its burst: the dates of its name
\* (the reference date first), and whether process_compressed_slc raises on
\* it (its input cannot be read).  Two pairs that agree in burst and dates
\* are two files of that burst whose names hold the same dates.
CompressedSources == [burst_id : BurstIds, date : FileDates, fails : BOOLEAN]

\* A file of cslc_file_list: its burst and its date.  Two files that agree
\* in both are told apart by their places in the list.
InventoryFile == [burst_id : BurstIds, date : FileDates]

MaxInventory == 2

\* comp_slc_dict.items() with the files of each burst, as the loops of lines
\* 1539-1540 meet them: the keys of a dict differ, so the pairs of one burst
\* follow each other.  At most one of the files cannot be read.
CompSlcDicts ==
    {pairs \in UNION {[1..n -> CompressedSources] : n \in 1..MaxTasks} :
        /\ \A i, j, k \in 1..Len(pairs) :
              (i < j /\ j < k /\ pairs[i].burst_id = pairs[k].burst_id)
                  => pairs[j].burst_id = pairs[i].burst_id
        /\ \A i, j \in 1..Len(pairs) : (pairs[i].fails /\ pairs[j].fails) => i = j}

\* filter_by_date of opera_utils: the files of that date, in their order
\* (files are named by their places in cslc_file_list).
filter_by_date(places, files, date) ==
    SelectSeq(places, LAMBDA j : files[j].date = date)

\* filter_by_burst_id of opera_utils: the files of that burst, in their order.
filter_by_burst_id(places, files, burst_id) ==
    SelectSeq(places, LAMBDA j : files[j].burst_id = burst_id)

\* Lines 1542-1544: the files of cslc_file_list that match the pair.
MatchingFiles(files, pair) ==
    filter_by_burst_id(filter_by_date([j \in 1..Len(files) |-> j], files, pair.date),
                       files, pair.burst_id)

\* A slip: the first match is taken.
PickSource_First(matching_files) == matching_files[1]

\* Line 1552: cur_opera_cslc = matching_files[-1]
PickSource(matching_files) == matching_files[Len(matching_files)]

\* Line 1553: CompressedSLCInfo(burst_id, comp_slc_file, output_dir, cur_opera_cslc)
CompressedSLCInfo(pair, cur_opera_cslc) ==
    [burst_id |-> pair.burst_id, date |-> pair.date, fails |-> pair.fails,
     opera_cslc_file |-> cur_opera_cslc]

\* A slip: the name leaves the burst out.
OutName_DatesOnly(info) == <<0, info.date>>

\* Lines 1318-1320: COMPRESSED_SLC_TEMPLATE.format(burst_id=burst_id,
\* date_str=date_str), the dates being those of the compressed file's name.
OutName(info) == <<info.burst_id, info.date>>

\* A slip: the loops are left after the first pair.
LoopDone_AfterFirst(infos, pairs) == Len(infos) >= 1

\* Lines 1539-1554: the loops end when every pair has its task.
LoopDone(infos, pairs) == Len(infos) = Len(pairs)

\* Lines 1556-1558: the process pool for more than one worker.
IsParallel(workers) == workers > 1

Tasks == 1..Len(compressed_slc_infos)
TasksIn(status) == {i \in Tasks : task_status[i] = status}

InitPool ==
    /\ pc = "pool_resolve"
    /\ comp_slc_dict \in CompSlcDicts
    /\ inventory_files \in UNION {[1..n -> InventoryFile] : n \in 0..MaxInventory}
    /\ compressed_slc_infos = <<>>
    /\ max_workers \in 1..MaxWorkers
    /\ task_status = <<>>
    /\ collected = 0
    /\ written_files = {}
    /\ results = Some(<<>>)
    /\ pool_error = "none"
    /\ RunConfigIdle
    /\ MaskIdle
    /\ AssemblyIdle
    /\ TaskIdle

\* Lines 1539-1554, one turn of the loops: the next pair gets the last of its
\* matching files and becomes a task; matching_files[-1] raises an IndexError
\* when no file matches.
ResolvePair ==
    /\ pc = "pool_resolve"
    /\ ~LoopDone(compressed_slc_infos, comp_slc_dict)
    /\ LET pair == comp_slc_dict[Len(compressed_slc_infos) + 1]
           matching_files == MatchingFiles(inventory_files, pair)
       IN IF matching_files = <<>>
          THEN /\ pool_error' = "IndexError"
               /\ results' = None
               /\ pc' = "pool_raised"
               /\ UNCHANGED <<compressed_slc_infos, task_status>>
          ELSE /\ compressed_slc_infos' =
                     Append(compressed_slc_infos,
                            CompressedSLCInfo(pair, PickSource(matching_files)))
               /\ task_status' = Append(task_status, "created")
               /\ UNCHANGED <<pool_error, results, pc>>
    /\ UNCHANGED <<outside_pool, comp_slc_dict, inventory_files, max_workers,
                   collected, written_files>>

\* Lines 1556-1563: the loops are over and the executor is made.
EnterExecutor ==
    /\ pc = "pool_resolve"
    /\ LoopDone(compressed_slc_infos, comp_slc_dict)
    /\ pc' = "pool_start"
    /\ UNCHANGED <<outside_pool, pool_vars>>

\* Lines 1559-1564, ProcessPoolExecutor.map: every task is submitted before
\* the first result is asked for.
SubmitAll ==
    /\ pc = "pool_start"
    /\ IsParallel(max_workers)
    /\ task_status' = [i \in Tasks |-> "pending"]
    /\ pc' = "pool_running"
    /\ UNCHANGED <<outside_pool, comp_slc_dict, inventory_files, compressed_slc_infos, max_workers, collected,
                   written_files, results, pool_error>>

\* A free worker takes the next pending task of the queue.
WorkerStart ==
    /\ pc \in {"pool_running", "pool_shutdown"}
    /\ Cardinality(TasksIn("running")) < max_workers
    /\ \E i \in TasksIn("pending") :
          /\ \A j \in TasksIn("pending") : i <= j
          /\ task_status' = [task_status EXCEPT ![i] = "running"]
    /\ UNCHANGED <<outside_pool, comp_slc_dict, inventory_files, pc, compressed_slc_infos, max_workers, collected,
                   written_files, results, pool_error>>

\* process_compressed_slc ends in a worker: its file is written, or it raised.
WorkerFinish ==
    /\ pc \in {"pool_running", "pool_shutdown"}
    /\ \E i \in TasksIn("running") :
          IF compressed_slc_infos[i].fails
          THEN /\ task_status' = [task_status EXCEPT ![i] = "failed"]
               /\ UNCHANGED written_files
          ELSE /\ task_status' = [task_status EXCEPT ![i] = "done"]
               /\ written_files' = written_files \cup {OutName(compressed_slc_infos[i])}
    /\ UNCHANGED <<outside_pool, comp_slc_dict, inventory_files, pc, compressed_slc_infos, max_workers, collected,
                   results, pool_error>>

\* Line 1564, list(executor.map(...)): the caller takes the results in task
\* order; the exception of a failed task is raised again, and the futures
\* still pending are cancelled.
CollectResult ==
    /\ pc = "pool_running"
    /\ collected < Len(compressed_slc_infos)
    /\ LET i == collected + 1
       IN \/ /\ task_status[i] = "done"
             /\ collected' = i
             /\ results' = {Append(r, OutName(compressed_slc_infos[i])) : r \in results}
             /\ UNCHANGED <<task_status, pool_error, pc>>
          \/ /\ task_status[i] = "failed"
             /\ pool_error' = "Exception"
             /\ results' = None
             /\ task_status' = [j \in Tasks |->
                                  IF task_status[j] = "pending" THEN "cancelled"
                                  ELSE task_status[j]]
             /\ pc' = "pool_shutdown"
             /\ UNCHANGED collected
    /\ UNCHANGED <<outside_pool, comp_slc_dict, inventory_files, compressed_slc_infos, max_workers, written_files>>

\* Every result is taken: the with block is left.
AllCollected ==
    /\ pc = "pool_running"
    /\ collected = Len(compressed_slc_infos)
    /\ pc' = "pool_shutdown"
    /\ UNCHANGED <<outside_pool, pool_vars>>

\* The exit of the with block: shutdown(wait=True) returns when no task is
\* running or pending; then the path list is returned or the exception
\* leaves create_compressed_products.
Shutdown ==
    /\ pc = "pool_shutdown"
    /\ TasksIn("running") = {}
    /\ TasksIn("pending") = {}
    /\ pc' = IF pool_error = "none" THEN "pool_returned" ELSE "pool_raised"
    /\ UNCHANGED <<outside_pool, pool_vars>>

\* DummyProcessPoolExecutor.map under list(...): the next task runs in the
\* caller; its exception ends the batch and leaves the later tasks unrun.
RunInCaller ==
    /\ pc = "pool_start"
    /\ ~IsParallel(max_workers)
    /\ collected < Len(compressed_slc_infos)
    /\ LET i == collected + 1
       IN IF compressed_slc_infos[i].fails
          THEN /\ task_status' = [task_status EXCEPT ![i] = "failed"]
               /\ pool_error' = "Exception"
               /\ results' = None
               /\ pc' = "pool_raised"
               /\ UNCHANGED <<collected, written_files>>
          ELSE /\ task_status' = [task_status EXCEPT ![i] = "done"]
               /\ written_files' = written_files \cup {OutName(compressed_slc_infos[i])}
               /\ results' = {Append(r, OutName(compressed_slc_infos[i])) : r \in results}
               /\ collected' = i
               /\ UNCHANGED <<pool_error, pc>>
    /\ UNCHANGED <<outside_pool, comp_slc_dict, inventory_files, compressed_slc_infos, max_workers>>

\* Lines 1566-1567: the batch ran in the caller to its end.
ReturnFromCaller ==
    /\ pc = "pool_start"
    /\ ~IsParallel(max_workers)
    /\ collected = Len(compressed_slc_infos)
    /\ pc' = "pool_returned"
    /\ UNCHANGED <<outside_pool, pool_vars>>

NextPool ==
    \/ ResolvePair
    \/ EnterExecutor
    \/ SubmitAll
    \/ WorkerStart
    \/ WorkerFinish
    \/ CollectResult
    \/ AllCollected
    \/ Shutdown
    \/ RunInCaller
    \/ ReturnFromCaller

SpecPool == InitPool /\ [][NextPool]_vars

\* create_compressed_products has ended, by a return or by an exception.
PoolEnded == pc \in {"pool_returned", "pool_raised"}

\* Every pair found its file: the loops of lines 1539-1554 did not raise.
EveryPairMatched == pool_error # "IndexError"

\* C19, as claimed: when a task fails, every other task still runs to its
\* end and writes its file, and the batch ends without an exception (every
\* pair having a matching file).
C19_FailureIsolated ==
    (PoolEnded /\ EveryPairMatched /\ \E i \in Tasks : compressed_slc_infos[i].fails)
        => /\ pool_error = "none"
           /\ \A i \in Tasks :
                ~compressed_slc_infos[i].fails
                    => /\ task_status[i] = "done"
                       /\ OutName(compressed_slc_infos[i]) \in written_files

\* The files written and the list returned when the batch runs in the
\* caller, task after task, up to the first task that raises.
RECURSIVE RunInOrder(_, _, _)
RunInOrder(infos, files, paths) ==
    IF infos = <<>> THEN [written_files |-> files, results |-> Some(paths)]
    ELSE IF Head(infos).fails THEN [written_files |-> files, results |-> None]
    ELSE RunInOrder(Tail(infos), files \cup {OutName(Head(infos))},
                    Append(paths, OutName(Head(infos))))

\* C20, as claimed: on one batch the run in the pool ends, under every
\* interleaving of its workers, with the files and the path list of the run
\* in the caller (every pair having a matching file).
C20_ParallelEqualsSequential ==
    (PoolEnded /\ EveryPairMatched)
        => [written_files |-> written_files, results |-> results]
              = RunInOrder(compressed_slc_infos, {}, <<>>)

\* The places of cslc_file_list whose file has the burst and the date of the
\* pair.
MatchesOf(pair) ==
    {j \in 1..Len(inventory_files) :
        /\ inventory_files[j].burst_id = pair.burst_id
        /\ inventory_files[j].date = pair.date}

\* C21: the task of every pair carries the last file of cslc_file_list, in
\* the order of the list, among those of the pair's reference date and burst;
\* several matching files raise nothing.
C21_LastMatchWins ==
    /\ \A k \in Tasks :
          /\ compressed_slc_infos[k].burst_id = comp_slc_dict[k].burst_id
          /\ compressed_slc_infos[k].date = comp_slc_dict[k].date
          /\ compressed_slc_infos[k].opera_cslc_file \in MatchesOf(comp_slc_dict[k])
          /\ \A j \in MatchesOf(comp_slc_dict[k]) :
                j <= compressed_slc_infos[k].opera_cslc_file
    /\ pool_error = "IndexError"
          => MatchesOf(comp_slc_dict[Len(compressed_slc_infos) + 1]) = {}

\* Two files of the list match the one pair, and its task carries the second.
C21_Witness ==
    /\ pc = "pool_returned"
    /\ Len(comp_slc_dict) = 1
    /\ MatchesOf(comp_slc_dict[1]) = {1, 2}
    /\ compressed_slc_infos[1].opera_cslc_file = 2

\* No two tasks have one output name, and no file was written by two.
DistinctOutputs ==
    /\ \A i, j \in Tasks :
          i # j => OutName(compressed_slc_infos[i]) # OutName(compressed_slc_infos[j])
    /\ Cardinality(written_files) = Cardinality(TasksIn("done"))

\* C26, as claimed: whatever the pairs, every task has an output name of its
\* own and no two tasks write one file.
C26_DistinctOutputPaths == DistinctOutputs

\* The compressed files of each burst differ in the dates of their names.
DistinctDates ==
    \A i, j \in 1..Len(comp_slc_dict) :
        (i # j /\ comp_slc_dict[i].burst_id = comp_slc_dict[j].burst_id)
            => comp_slc_dict[i].date # comp_slc_dict[j].date

\* C26, amended: when the compressed files of each burst differ in the dates
\* of their names, every task has an output name of its own and no two tasks
\* write one file.
C26_DistinctDatesDistinctPaths == DistinctDates => DistinctOutputs

\* Two pairs of one date under different bursts, each written to a file of
\* its own.
C26_Witness ==
    /\ pc = "pool_returned"
    /\ DistinctDates
    /\ Len(compressed_slc_infos) = 2
    /\ compressed_slc_infos[1].date = compressed_slc_infos[2].date
    /\ compressed_slc_infos[1].burst_id # compressed_slc_infos[2].burst_id
    /\ Cardinality(written_files) = 2

\* A task has left the state it was created in.
SomeTaskStarted == \E i \in Tasks : task_status[i] # "created"

\* A pair of comp_slc_dict has no matching file in cslc_file_list.
SomePairUnmatched == \E k \in 1..Len(comp_slc_dict) : MatchesOf(comp_slc_dict[k]) = {}

\* C30: every pair has its task before a task starts; when a pair has no
\* matching file, create_compressed_products raises the IndexError of line
\* 1552 before the executor is made: no task ever starts and no file is
\* written, for the pairs with a match either.
C30_ResolvedBeforeAnyTask ==
    /\ (SomeTaskStarted \/ pc \notin {"pool_resolve", "pool_raised"})
          => Len(compressed_slc_infos) = Len(comp_slc_dict)
    /\ SomePairUnmatched
          => /\ pc \in {"pool_resolve", "pool_raised"}
             /\ ~SomeTaskStarted
             /\ written_files = {}
             /\ pc = "pool_raised" => (pool_error = "IndexError" /\ results = None)

\* The first pair had a match and got its task, the second had none: the
\* IndexError left create_compressed_products with no file written.
C30_Witness ==
    /\ pc = "pool_raised"
    /\ pool_error = "IndexError"
    /\ Len(compressed_slc_infos) = 1
    /\ Len(comp_slc_dict) >= 2
    /\ MatchesOf(comp_slc_dict[1]) # {}
    /\ written_files = {}

-----------------------------------------------------------------------------
(* process_compressed_slc (product.py): one task, step by step.            *)

\* The tasks create_compressed_products hands out.
CompressedSLCInfos ==
    {CompressedSLCInfo(pair, place) :
        pair \in CompressedSources, place \in 1..MaxInventory}

\* What a file left at outname by an earlier run holds.
PreviousContent == {"previous"}

\* Lines 1340-1343: h5py.File(outname, "w") makes the file anew, whatever
\* was there, and the complex type is committed to its root.
CreateOutput(before) == Some({"complex64"})

InitTask ==
    /\ pc = "task_start"
    /\ \E task \in CompressedSLCInfos : task_info = Some(task)
    /\ outname = None
    /\ existed \in BOOLEAN
    /\ output_file = IF existed THEN Some(PreviousContent) ELSE None
    /\ task_log = <<>>
    /\ task_error = "none"
    /\ task_result = None
    /\ RunConfigIdle
    /\ MaskIdle
    /\ AssemblyIdle
    /\ PoolIdle

\* Lines 1317-1320: the output path from the burst and the dates.
NameOutput ==
    /\ pc = "task_start"
    /\ outname' = {OutName(task) : task \in task_info}
    /\ pc' = "task_named"
    /\ UNCHANGED <<outside_task, task_info, existed, output_file, task_log,
                   task_error, task_result>>

\* Lines 1322-1323: an existing output is logged as skipped; the function
\* goes on all the same.
CheckExisting ==
    /\ pc = "task_named"
    /\ task_log' = IF output_file # None THEN Append(task_log, "Skipping existing")
                   ELSE task_log
    /\ pc' = "task_checked"
    /\ UNCHANGED <<outside_task, task_info, outname, existed, output_file, task_error,
                   task_result>>

\* Lines 1325-1333: the compressed file is read; its exception leaves
\* process_compressed_slc.
LoadCompressed ==
    /\ pc = "task_checked"
    /\ IF \E task \in task_info : task.fails
       THEN /\ task_error' = "Exception"
            /\ pc' = "task_raised"
       ELSE /\ task_error' = task_error
            /\ pc' = "task_loaded"
    /\ UNCHANGED <<outside_task, task_info, outname, existed, output_file, task_log,
                   task_result>>

\* Lines 1339-1343: the output file is made with mode "w".
CreateOutputFile ==
    /\ pc = "task_loaded"
    /\ task_log' = Append(task_log, "Writing")
    /\ output_file' = CreateOutput(output_file)
    /\ pc' = "task_created"
    /\ UNCHANGED <<outside_task, task_info, outname, existed, task_error, task_result>>

\* Lines 1348-1392: the file opened with mode "a" and the compressed data
\* and the amplitude dispersion written.
WriteDatasets ==
    /\ pc = "task_created"
    /\ output_file' = {held \cup {"data", "amplitude_dispersion"} : held \in output_file}
    /\ pc' = "task_written"
    /\ UNCHANGED <<outside_task, task_info, outname, existed, task_log, task_error,
                   task_result>>

\* Line 1394: copy_cslc_metadata_to_compressed.
CopyMetadata ==
    /\ pc = "task_written"
    /\ output_file' = {held \cup {"metadata"} : held \in output_file}
    /\ pc' = "task_copied"
    /\ UNCHANGED <<outside_task, task_info, outname, existed, task_log, task_error,
                   task_result>>

\* Line 1396: return outname
ReturnOutname ==
    /\ pc = "task_copied"
    /\ task_result' = outname
    /\ pc' = "task_returned"
    /\ UNCHANGED <<outside_task, task_info, outname, existed, output_file, task_log,
                   task_error>>

NextTask ==
    \/ NameOutput
    \/ CheckExisting
    \/ LoadCompressed
    \/ CreateOutputFile
    \/ WriteDatasets
    \/ CopyMetadata
    \/ ReturnOutname

SpecTask == InitTask /\ [][NextTask]_vars

\* C27, as claimed: when the output file exists already, the task skips it:
\* the file keeps what it held and is not written again.
C27_ExistingOutputSkipped ==
    existed => /\ output_file = Some(PreviousContent)
               /\ "Writing" \notin {task_log[i] : i \in 1..Len(task_log)}

-----------------------------------------------------------------------------
(* The whole system: each component started on its own inputs.             *)

Init ==
    InitResolve \/ InitMerge \/ InitTranslate \/ InitMask \/ InitAssembly \/ InitPool
        \/ InitTask

Next ==
    NextResolve \/ NextMerge \/ NextTranslate \/ NextMask \/ NextAssembly
        \/ NextPool \/ NextTask

Spec == Init /\ [][Next]_vars

====
